---- MODULE Spec2Model ----
(***************************************************************************)
(* A model of the consultation pipeline of functions/index.js: the schema  *)
(* validators, the drift detector, the LangGraph workflow                  *)
(* (extract -> get_context -> diagnose -> detect_drift -> save_to_graph),  *)
(* the Cognee patient graphs, the Firestore history collection and the     *)
(* MLflow logging done by processMessage.                                  *)
(*                                                                         *)
(* JavaScript values are tagged records [t |-> <type tag>, v |-> payload]. *)
(* Text is kept as TLA+ strings; a model completion is a sequence of       *)
(* tokens (fence markers, words, newlines, one JSON document).             *)
(***************************************************************************)
EXTENDS Integers, Sequences, FiniteSets, TLC

(***************************************************************************)
(* Bounds of the model.                                                    *)
(***************************************************************************)
\* largest reading of the millisecond clock (Date.now())
MaxClock == 1
\* number of processMessage calls made in a behaviour
MaxRuns == 2
\* the longest window of previous results handed to detectDrift directly
MaxWindow == 3
\* the most symptoms of an extraction handed to detectDrift directly
MaxSymptoms == 8
\* the transcribe requests considered
MaxRequests == 2
\* the most entries a history collection holds before the first call
MaxStored == 11

(***************************************************************************)
(* JavaScript values.                                                      *)
(***************************************************************************)
Undefined == [t |-> "undefined"]
Null == [t |-> "null"]
Str(s) == [t |-> "string", v |-> s]
Num(n) == [t |-> "number", v |-> n]
Arr(s) == [t |-> "array", v |-> s]
Obj(f) == [t |-> "object", v |-> f]
EmptyObj == Obj([k \in {} |-> Undefined])

\* o.k for a value that is not null or undefined (a missing property and a
\* property of a primitive read as undefined)
Get(o, k) == IF o.t = "object" /\ k \in DOMAIN o.v THEN o.v[k] ELSE Undefined

\* typeof v
TypeOf(v) == IF v.t \in {"array", "null"} THEN "object" ELSE v.t

\* the truthiness used by !v and by v || d
Truthy(v) ==
  /\ v.t \notin {"undefined", "null"}
  /\ ~(v.t = "string" /\ v.v = "")
  /\ ~(v.t = "number" /\ v.v = 0)

\* v || d
OrElse(v, d) == IF Truthy(v) THEN v ELSE d

\* v?.length
LengthOf(v) ==
  CASE v.t = "array" -> Num(Len(v.v))
    [] v.t = "string" -> Num(Len(v.v))
    [] OTHER -> Undefined

\* String(v) of a template literal or of join
JsString(v) ==
  CASE v.t = "string" -> v.v
    [] v.t = "number" -> ToString(v.v)
    [] v.t = "null" -> "null"
    [] v.t = "undefined" -> "undefined"
    [] OTHER -> "[object Object]"

RECURSIVE Join(_, _)
\* Array.prototype.join on an array of strings
Join(s, sep) ==
  IF Len(s) = 0 THEN ""
  ELSE IF Len(s) = 1 THEN s[1]
  ELSE s[1] \o sep \o Join(Tail(s), sep)

\* the strings of an array of string values
Strings(a) == [i \in 1..Len(a) |-> a[i].v]

(***************************************************************************)
(* Schema validation (index.js 82-129).  The result carries threw = TRUE   *)
(* when the property access data.<field> raises a TypeError (data null or  *)
(* undefined).                                                             *)
(***************************************************************************)
Threw == [threw |-> TRUE, isValid |-> FALSE, errors |-> <<>>]

PatientInfoErrors(data) ==
  LET pi == Get(data, "patient_info") IN
  IF ~Truthy(pi) THEN <<"Missing patient_info">>
  ELSE (IF TypeOf(Get(pi, "name")) # "string"
          THEN <<"patient_info.name must be string">> ELSE <<>>)
    \o (IF TypeOf(Get(pi, "age")) # "number"
          THEN <<"patient_info.age must be number">> ELSE <<>>)
    \o (IF Get(pi, "id") # Null /\ TypeOf(Get(pi, "id")) # "string"
          THEN <<"patient_info.id must be string or null">> ELSE <<>>)

SymptomErrors(data) ==
  LET sy == Get(data, "symptoms") IN
  IF sy.t # "array" THEN <<"symptoms must be array">>
  ELSE LET bad == SelectSeq([i \in 1..Len(sy.v) |-> i],
                            LAMBDA i : TypeOf(sy.v[i]) # "string")
       IN [j \in 1..Len(bad) |->
             "symptom[" \o ToString(bad[j] - 1) \o "] must be string"]

MotiveErrors(data) ==
  IF TypeOf(Get(data, "motive")) # "string"
    THEN <<"motive must be string">> ELSE <<>>

validateExtractionSchema(data) ==
  IF data.t \in {"null", "undefined"} THEN Threw
  ELSE LET errors == PatientInfoErrors(data) \o SymptomErrors(data)
                       \o MotiveErrors(data)
       IN [threw |-> FALSE, isValid |-> Len(errors) = 0, errors |-> errors]

DiagnosisFieldError(data, field) ==
  IF TypeOf(Get(data, field)) # "string"
    THEN <<field \o " must be string">> ELSE <<>>

validateDiagnosisSchema(data) ==
  IF data.t \in {"null", "undefined"} THEN Threw
  ELSE LET errors == DiagnosisFieldError(data, "diagnosis")
                       \o DiagnosisFieldError(data, "treatment")
                       \o DiagnosisFieldError(data, "recommendations")
       IN [threw |-> FALSE, isValid |-> Len(errors) = 0, errors |-> errors]

(***************************************************************************)
(* Drift detection (index.js 132-156).                                     *)
(***************************************************************************)
\* the fixed threshold of the symptom count variance
DriftThreshold == 3

\* x?.symptoms?.length || 0
SymptomCount(x) == OrElse(LengthOf(Get(x, "symptoms")), Num(0)).v

RECURSIVE SumSymptomCounts(_)
SumSymptomCounts(previousResults) ==
  IF Len(previousResults) = 0 THEN 0
  ELSE SymptomCount(Head(previousResults))
         + SumSymptomCounts(Tail(previousResults))

Abs(n) == IF n < 0 THEN -n ELSE n

\* (sum / n).toFixed(1), for sum >= 0 and n > 0
ToFixed1(sum, n) ==
  LET tenths == (20 * sum + n) \div (2 * n)
  IN ToString(tenths \div 10) \o "." \o ToString(tenths % 10)

\* a schema check that flags every extraction (not the code's: C19 must fail
\* on it)
SchemaFlagAlways(extractionResult) == <<"Schema validation failed: ">>

\* a detector without the schema check (not the code's: C34 must fail on it)
SchemaFlagNever(extractionResult) == <<>>

SchemaFlag(extractionResult) ==
  LET schemaValidation == validateExtractionSchema(extractionResult) IN
  IF ~schemaValidation.isValid
    THEN <<"Schema validation failed: " \o Join(schemaValidation.errors, ", ")>>
    ELSE <<>>

\* a comparison that also flags a variance of exactly the threshold (not the
\* code's: C17 must fail on it)
VarianceFlagInclusive(extractionResult, previousResults) ==
  LET current == SymptomCount(extractionResult)
      n == Len(previousResults)
      sum == SumSymptomCounts(previousResults)
  IN IF n > 0 /\ Abs(current * n - sum) >= DriftThreshold * n
       THEN <<"Symptom count variance detected: current=" \o ToString(current)
                \o ", avg=" \o ToFixed1(sum, n)>>
       ELSE <<>>

\* a comparison that takes the mean of an empty window for 0 (not the code's:
\* C18 must fail on it)
VarianceFlagOnEmpty(extractionResult, previousResults) ==
  LET current == SymptomCount(extractionResult)
      n == Len(previousResults)
      sum == SumSymptomCounts(previousResults)
  IN IF n = 0
       THEN (IF current > DriftThreshold
               THEN <<"Symptom count variance detected: current="
                        \o ToString(current) \o ", avg=0.0">>
               ELSE <<>>)
     ELSE IF Abs(current * n - sum) > DriftThreshold * n
       THEN <<"Symptom count variance detected: current=" \o ToString(current)
                \o ", avg=" \o ToFixed1(sum, n)>>
       ELSE <<>>

\* variance > 3 with variance = |current - sum / n|, in integers
VarianceFlag(extractionResult, previousResults) ==
  LET current == SymptomCount(extractionResult)
      n == Len(previousResults)
      sum == SumSymptomCounts(previousResults)
  IN IF n > 0 /\ Abs(current * n - sum) > DriftThreshold * n
       THEN <<"Symptom count variance detected: current=" \o ToString(current)
                \o ", avg=" \o ToFixed1(sum, n)>>
       ELSE <<>>

\* detectDrift; threw when validateExtractionSchema raises
detectDrift(extractionResult, previousResults) ==
  IF validateExtractionSchema(extractionResult).threw
    THEN [threw |-> TRUE, hasDrift |-> FALSE, flags |-> <<>>]
    ELSE LET driftFlags == SchemaFlag(extractionResult)
                             \o VarianceFlag(extractionResult, previousResults)
         IN [threw |-> FALSE, hasDrift |-> Len(driftFlags) > 0,
             flags |-> driftFlags]

(***************************************************************************)
(* Completion text and its normalisation (index.js 331-332, 388-389).      *)
(***************************************************************************)
Fence == [k |-> "fence"]
NL == [k |-> "nl"]
Word(w) == [k |-> "word", w |-> w]
Json(v) == [k |-> "json", v |-> v]

RECURSIVE RemoveJsonFences(_)
\* .replace(/```json/g, '')
RemoveJsonFences(s) ==
  IF Len(s) = 0 THEN <<>>
  ELSE IF Len(s) >= 2 /\ s[1] = Fence /\ s[2] = Word("json")
    THEN RemoveJsonFences(SubSeq(s, 3, Len(s)))
    ELSE <<s[1]>> \o RemoveJsonFences(Tail(s))

\* .replace(/```/g, '')
RemoveFences(s) == SelectSeq(s, LAMBDA tok : tok # Fence)

RECURSIVE TrimLeft(_)
TrimLeft(s) == IF Len(s) > 0 /\ s[1] = NL THEN TrimLeft(Tail(s)) ELSE s

RECURSIVE TrimRight(_)
TrimRight(s) ==
  IF Len(s) > 0 /\ s[Len(s)] = NL
    THEN TrimRight(SubSeq(s, 1, Len(s) - 1)) ELSE s

\* .trim()
Trim(s) == TrimRight(TrimLeft(s))

CleanResponse(content) == Trim(RemoveFences(RemoveJsonFences(content)))

\* JSON.parse: the text must be exactly one JSON document
JSONParse(s) ==
  IF Len(s) = 1 /\ s[1].k = "json"
    THEN [ok |-> TRUE, value |-> s[1].v]
    ELSE [ok |-> FALSE, value |-> Undefined]

(***************************************************************************)
(* Inputs and the answers of the external services.                        *)
(***************************************************************************)
\* the text of a request
Texts == {"tengo fiebre y tos"}
\* subject ids of requests; a request may also carry none (null)
Patients == {"A", "anonymous"}
PatientIds == {Null} \cup {Str(p) : p \in Patients}

ValidExtraction ==
  Obj([patient_info |-> Obj([name |-> Str("Ana"), age |-> Num(34), id |-> Null]),
       symptoms |-> Arr(<<Str("fiebre"), Str("tos"), Str("mareo"), Str("nausea")>>),
       motive |-> Str("consulta")])
\* no patient_info, symptoms not a sequence
InvalidExtraction ==
  Obj([symptoms |-> Str("fiebre"), motive |-> Str("consulta")])
ValidDiagnosis ==
  Obj([diagnosis |-> Str("gripe"), treatment |-> Str("reposo"),
       recommendations |-> Str("hidratacion")])
\* recommendations as a list
InvalidDiagnosis ==
  Obj([diagnosis |-> Str("gripe"), treatment |-> Str("reposo"),
       recommendations |-> Arr(<<Str("hidratacion")>>)])

\* what the model may answer, as document d of the step's kind
Completions(valid, invalid) ==
  { <<Fence, Word("json"), NL, Json(valid), NL, Fence>>,
    <<Fence, NL, Json(valid), NL, Fence>>,
    <<Json(valid)>>,
    <<Fence, Word("javascript"), NL, Json(valid), NL, Fence>>,
    <<Word("Lo"), Word("siento")>>,
    <<Json(Null)>>,
    <<Json(invalid)>> }
ExtractCompletions == Completions(ValidExtraction, InvalidExtraction)
DiagnosisCompletions == Completions(ValidDiagnosis, InvalidDiagnosis)

\* outcome of a call of an external service
Outcomes == {"ok", "fail"}

\* what a step that completes a prompt may meet: the prompt file cannot be
\* loaded, the completion call fails, or the call answers with a text
CompletionCases(completions) ==
  {[file |-> "fail", call |-> "ok", content |-> <<>>],
   [file |-> "ok", call |-> "fail", content |-> <<>>]}
    \cup {[file |-> "ok", call |-> "ok", content |-> c] : c \in completions}

(***************************************************************************)
(* Constants of the program.                                               *)
(***************************************************************************)
PROMPT_VERSIONS == [EXTRACT |-> "extract_v2", DIAGNOSIS |-> "diagnosis_v3"]
PromptVersion == PROMPT_VERSIONS.EXTRACT \o "," \o PROMPT_VERSIONS.DIAGNOSIS
ExtractErrorMarker == Obj([error |-> Str("No se pudo extraer datos estructurados")])
DiagnosisErrorMarker ==
  Obj([error |-> Str("No se pudo generar diagnostico estructurado")])
FallbackResponse ==
  "Lo siento, hubo un error procesando tu mensaje. Por favor, intenta de nuevo."
\* limit of the context search, of the searchPatient endpoint, of the drift window
ContextLimit == 5
SearchLimit == 10
DriftWindow == 10

\* a loader that answers a default template for a file it cannot read (not
\* the code's: C22 must fail on it)
loadPromptDefault(type, file) ==
  IF type = "extract" THEN Str(PROMPT_VERSIONS.EXTRACT)
  ELSE IF type = "diagnosis" THEN Str(PROMPT_VERSIONS.DIAGNOSIS)
  ELSE Undefined

\* loadPrompt: the template, or null when the file cannot be read or parsed
loadPrompt(type, file) ==
  IF file = "fail" THEN Null
  ELSE IF type = "extract" THEN Str(PROMPT_VERSIONS.EXTRACT)
  ELSE IF type = "diagnosis" THEN Str(PROMPT_VERSIONS.DIAGNOSIS)
  ELSE Undefined

\* createState
createState ==
  [messages |-> <<>>, extracted_data |-> EmptyObj, diagnosis |-> EmptyObj,
   patient_id |-> Null, cognee_context |-> "", transcription |-> "",
   drift_flags |-> <<>>]

\* `patient-${patientId}`
\* a graph id that forgets the subject (not the code's: C6 must fail on it)
GraphIdShared(patientId) == "patient-"

GraphId(patientId) == "patient-" \o JsString(patientId)

\* new Date().toISOString() at clock reading ms
ISOString(ms) == "T" \o ToString(ms)
\* the clock reading an ISO string stands for
InstantOf(iso) ==
  CHOOSE ms \in (0 - MaxStored - 1)..(MaxClock + 1) : ISOString(ms) = iso

\* the last message of a run state
LastMessage(st) == st.messages[Len(st.messages)]

\* a guard that takes every run for one with a subject (not the code's: C5
\* must fail on it)
HasSubjectAlways(st) == TRUE

\* the guard of get_context and of save_to_graph: state.patient_id is truthy
HasSubject(st) == Truthy(st.patient_id)

(***************************************************************************)
(* State.                                                                  *)
(***************************************************************************)
VARIABLES
  now,         \* the last reading of the millisecond clock
  pc,          \* per run: where the processMessage call stands
  state,       \* per run: the workflow state (createState)
  trace,       \* per run: the workflow nodes started so far, in order
  saveTs,      \* per run: the timestamp of medicalData once addNode was called
  result,      \* per run: the value processMessage resolved to
  lastFault,   \* per run: the failure met by the last step taken, or "none"
  modelCalls,  \* per run: the completion calls issued so far
  graphs,      \* Cognee: graph id -> the nodes of the graph, for the graphs that exist
  history,     \* Firestore: patients/<doc>/history, doc -> the entries added
  mlflow,      \* per run: the call of logToMLflow and its MLflow run
  started,     \* the number of processMessage calls made so far
  unit,        \* the last direct call of a validator or of detectDrift
  files,       \* the paths that exist in the upload directory of os.tmpdir()
  req          \* per transcribe request: where it stands, its file, its response

vars == <<now, pc, state, trace, saveTs, result, lastFault,
          modelCalls, graphs, history, mlflow, started, unit, files, req>>

\* the requests of the transcribe endpoint that may be in flight together
Requests == 1..MaxRequests
\* a request that has not arrived
NoRequest == [at |-> "idle", path |-> "", status |-> 0]

\* the processMessage calls that may be in flight together; a call takes the
\* place of a call that has returned, whose run state is discarded
Runs == {1, 2}

\* documents of the patients collection that the program can address
Docs == Patients \cup {"anonymous"}

Pending == [pending |-> TRUE]
NoCall == [fn |-> "none"]
NoMlflowRun == [calls |-> 0, status |-> "none", entry |-> <<>>]

Init ==
  /\ now = 0
  /\ pc = [r \in Runs |-> "idle"]
  /\ state = [r \in Runs |-> createState]
  /\ trace = [r \in Runs |-> <<>>]
  /\ saveTs = [r \in Runs |-> ""]
  /\ result = [r \in Runs |-> Pending]
  /\ lastFault = [r \in Runs |-> "none"]
  /\ modelCalls = [r \in Runs |-> <<>>]
  /\ graphs = [g \in {} |-> <<>>]
  /\ history = [d \in Docs |-> <<>>]
  /\ mlflow = [r \in Runs |-> NoMlflowRun]
  /\ started = 0
  /\ unit = NoCall
  /\ files = {}
  /\ req = [q \in Requests |-> NoRequest]

\* what Date.now() may read next: the clock does not run backwards
ClockReadings == now..MaxClock

(***************************************************************************)
(* The workflow graph (index.js 446-454).                                  *)
(***************************************************************************)
\* a graph whose diagnose leads to save_to_graph (not the code's: C4 must
\* fail on it)
EdgesSkipping ==
  [extract |-> "get_context", get_context |-> "diagnose",
   diagnose |-> "save_to_graph", detect_drift |-> "save_to_graph",
   save_to_graph |-> "END"]

\* a graph that persists before it detects drift (not the code's: C33 must
\* fail on it)
EdgesPersistFirst ==
  [extract |-> "get_context", get_context |-> "diagnose",
   diagnose |-> "save_to_graph", save_to_graph |-> "detect_drift",
   detect_drift |-> "END"]

\* a graph that persists before it diagnoses (not the code's: C39 must fail
\* on it)
EdgesPersistEarly ==
  [extract |-> "get_context", get_context |-> "save_to_graph",
   save_to_graph |-> "diagnose", diagnose |-> "detect_drift",
   detect_drift |-> "END"]

EntryPoint == "extract"
Edges ==
  [extract |-> "get_context", get_context |-> "diagnose",
   diagnose |-> "detect_drift", detect_drift |-> "save_to_graph",
   save_to_graph |-> "END"]
NextNode(node) == Edges[node]

\* processMessage without its catch: the error leaves it (not the code's: C3
\* must fail on it)
FailureResultRethrown(message) == [rejected |-> TRUE, error |-> message]

\* the catch of processMessage (index.js 504-511)
FailureResult(message) ==
  [success |-> FALSE, response |-> FallbackResponse, error |-> message]

\* processMessage up to workflow.invoke (index.js 458-469)
Start(r) ==
  \E text \in Texts, patientId \in PatientIds :
    /\ pc[r] \in {"idle", "done"}
    /\ \A q \in Runs : q < r => pc[q] \notin {"idle", "done"}
    /\ started < MaxRuns
    /\ started' = started + 1
    /\ state' = [state EXCEPT ![r] =
                   [createState EXCEPT
                      !.messages = <<[role |-> "user", content |-> text]>>,
                      !.patient_id = patientId]]
    /\ pc' = [pc EXCEPT ![r] = EntryPoint]
    /\ trace' = [trace EXCEPT ![r] = <<>>]
    /\ result' = [result EXCEPT ![r] = Pending]
    /\ lastFault' = [lastFault EXCEPT ![r] = "none"]
    /\ mlflow' = [mlflow EXCEPT ![r] = NoMlflowRun]
    /\ UNCHANGED <<now, saveTs, modelCalls, graphs, history>>

(***************************************************************************)
(* extract (index.js 314-345).                                             *)
(***************************************************************************)
\* a try block that lets a value through that fails its schema (not the
\* code's: C2 must fail on it)
ParseExtractionUnchecked(content) ==
  LET parsed == JSONParse(CleanResponse(content)) IN
  IF ~parsed.ok THEN [fault |-> "extract_parse", data |-> ExtractErrorMarker]
  ELSE LET validation == validateExtractionSchema(parsed.value) IN
       [fault |-> IF validation.threw \/ ~validation.isValid
                    THEN "extract_schema" ELSE "none",
        data |-> parsed.value]

\* the try block of the node: clean, parse, validate; any failure in it gives
\* the error marker
ParseExtraction(content) ==
  LET parsed == JSONParse(CleanResponse(content)) IN
  IF ~parsed.ok THEN [fault |-> "extract_parse", data |-> ExtractErrorMarker]
  ELSE LET validation == validateExtractionSchema(parsed.value) IN
       IF validation.threw \/ ~validation.isValid
         THEN [fault |-> "extract_schema", data |-> ExtractErrorMarker]
         ELSE [fault |-> "none", data |-> parsed.value]

\* a node that calls the model a second time when its output does not parse
\* or validate (not the code's: C23 must fail on it)
ExtractNodeRetrying(st, file, call, content) ==
  LET extractionPrompt == loadPrompt("extract", file)
      formattedPrompt == [template |-> extractionPrompt.v,
                          text |-> LastMessage(st).content]
      request == [model |-> "gemini-pro", prompt |-> formattedPrompt]
  IN IF ~Truthy(extractionPrompt)
       THEN [threw |-> TRUE, message |-> "Failed to load extraction prompt",
             fault |-> "extract_prompt", calls |-> <<>>,
             extracted_data |-> st.extracted_data]
     ELSE IF call = "fail"
       THEN [threw |-> TRUE, message |-> "provider error",
             fault |-> "extract_provider", calls |-> <<request>>,
             extracted_data |-> st.extracted_data]
     ELSE [threw |-> FALSE, message |-> "",
           fault |-> ParseExtraction(content).fault,
           calls |-> IF ParseExtraction(content).fault = "none"
                       THEN <<request>> ELSE <<request, request>>,
           extracted_data |-> ParseExtraction(content).data]

\* the node as a function of the prompt file, of the outcome of the completion
\* call and of its text: whether it throws, what it returns, what it called
ExtractNode(st, file, call, content) ==
  LET extractionPrompt == loadPrompt("extract", file)
      formattedPrompt == [template |-> extractionPrompt.v,
                          text |-> LastMessage(st).content]
      request == [model |-> "gemini-pro", prompt |-> formattedPrompt]
  IN IF ~Truthy(extractionPrompt)
       THEN [threw |-> TRUE, message |-> "Failed to load extraction prompt",
             fault |-> "extract_prompt", calls |-> <<>>,
             extracted_data |-> st.extracted_data]
     ELSE IF call = "fail"
       THEN [threw |-> TRUE, message |-> "provider error",
             fault |-> "extract_provider", calls |-> <<request>>,
             extracted_data |-> st.extracted_data]
     ELSE [threw |-> FALSE, message |-> "",
           fault |-> ParseExtraction(content).fault, calls |-> <<request>>,
           extracted_data |-> ParseExtraction(content).data]

Extract(r) ==
  \E case \in CompletionCases(ExtractCompletions) :
    LET out == ExtractNode(state[r], case.file, case.call, case.content) IN
    /\ pc[r] = "extract"
    /\ trace' = [trace EXCEPT ![r] = Append(@, "extract")]
    /\ lastFault' = [lastFault EXCEPT ![r] = out.fault]
    /\ IF out.threw
         THEN /\ pc' = [pc EXCEPT ![r] = "done"]
              /\ result' = [result EXCEPT ![r] = FailureResult(out.message)]
              /\ state' = [state EXCEPT ![r] = createState]
              /\ modelCalls' = [modelCalls EXCEPT ![r] = <<>>]
         ELSE /\ pc' = [pc EXCEPT ![r] = NextNode("extract")]
              /\ state' = [state EXCEPT ![r].extracted_data = out.extracted_data]
              /\ modelCalls' = [modelCalls EXCEPT ![r] = @ \o out.calls]
              /\ UNCHANGED result
    /\ UNCHANGED <<now, saveTs, graphs, history, mlflow, started>>

(***************************************************************************)
(* The Cognee patient graphs (index.js 187-273).                           *)
(***************************************************************************)
GraphExists(graphId) == graphId \in DOMAIN graphs

\* the subsequence of s at the indices I
Pick(s, I) ==
  LET F[i \in 0..Len(s)] ==
        IF i = 0 THEN <<>>
        ELSE IF i \in I THEN Append(F[i - 1], s[i]) ELSE F[i - 1]
  IN F[Len(s)]

\* cognee.search(graphId, {limit}): up to limit nodes of that graph, the
\* ranking being the store's; nothing for a graph that does not exist
SearchResults(graphId, limit) ==
  IF ~GraphExists(graphId) THEN {<<>>}
  ELSE {Pick(graphs[graphId], I) :
          I \in {J \in SUBSET (1..Len(graphs[graphId])) : Cardinality(J) <= limit}}

\* a line that renders the treatment for the diagnosis (not the code's: C21
\* must fail on it)
ContextLineTreatment(data) ==
  LET symptoms == Get(data, "symptoms").v IN
  "Consulta anterior (" \o JsString(Get(data, "timestamp")) \o "): Sintomas: "
    \o Join([i \in 1..Len(symptoms) |-> JsString(symptoms[i])], ", ")
    \o ", Diagnostico: " \o JsString(Get(data, "treatment"))

\* one line of the context (index.js 262)
ContextLine(data) ==
  LET symptoms == Get(data, "symptoms").v IN
  "Consulta anterior (" \o JsString(Get(data, "timestamp")) \o "): Sintomas: "
    \o Join([i \in 1..Len(symptoms) |-> JsString(symptoms[i])], ", ")
    \o ", Diagnostico: " \o JsString(Get(data, "diagnosis"))

\* getPatientContext on the outcome of the search (index.js 247-273)
getPatientContext(outcome, searchResults) ==
  IF outcome = "fail" THEN ""
  ELSE IF \E i \in 1..Len(searchResults) :
            Get(searchResults[i].data, "symptoms").t # "array"
    THEN ""
  ELSE Join([i \in 1..Len(searchResults) |-> ContextLine(searchResults[i].data)],
            "\n")

\* an entry that takes nothing from the run state (not the code's: C11 must
\* fail on it)
MedicalDataBlank(st, timestamp) ==
  Obj([timestamp |-> Str(timestamp), symptoms |-> Arr(<<>>),
       medications |-> Arr(<<>>), allergies |-> Arr(<<>>),
       diagnosis |-> Str(""), treatment |-> Str(""),
       recommendations |-> Str(""), raw_text |-> Str("")])

\* medicalData of addToPatientGraph (index.js 216-225)
MedicalData(st, timestamp) ==
  Obj(
  [timestamp |-> Str(timestamp),
   symptoms |-> OrElse(Get(st.extracted_data, "symptoms"), Arr(<<>>)),
   medications |-> OrElse(Get(st.extracted_data, "medications"), Arr(<<>>)),
   allergies |-> OrElse(Get(st.extracted_data, "allergies"), Arr(<<>>)),
   diagnosis |-> OrElse(Get(st.diagnosis, "diagnosis"), Str("")),
   treatment |-> OrElse(Get(st.diagnosis, "treatment"), Str("")),
   recommendations |-> OrElse(Get(st.diagnosis, "recommendations"), Str("")),
   raw_text |-> OrElse(Str(LastMessage(st).content), Str(""))])

\* `consultation-${Date.now()}`
NodeId(ms) == "consultation-" \o ToString(ms)

\* the node handed to cognee.addNode (index.js 228-236)
ConsultationNode(st, ms) ==
  [id |-> NodeId(ms), type |-> "medical_consultation",
   data |-> MedicalData(st, ISOString(ms)),
   metadata |-> [patient_id |-> st.patient_id,
                 consultation_date |-> ISOString(ms)]]

\* the nodes of a graph after a node is stored under its id
PutNode(nodes, node) ==
  IF \E i \in 1..Len(nodes) : nodes[i].id = node.id
    THEN [i \in 1..Len(nodes) |-> IF nodes[i].id = node.id THEN node ELSE nodes[i]]
    ELSE Append(nodes, node)

\* the body of the getHistory answer (index.js 571-585): the nodes of the
\* subject's graph
getHistory(patientId) ==
  IF GraphExists(GraphId(patientId)) THEN graphs[GraphId(patientId)] ELSE <<>>

\* the bodies the searchPatient answer may have (index.js 649-656)
searchPatient(patientId) == SearchResults(GraphId(patientId), SearchLimit)

(***************************************************************************)
(* get_context (index.js 348-366): the node awaits getGraph, createGraph   *)
(* and search in turn.                                                     *)
(***************************************************************************)
\* the node up to the answer of cognee.getGraph
GetContext(r) ==
  /\ pc[r] = "get_context"
  /\ trace' = [trace EXCEPT ![r] = Append(@, "get_context")]
  /\ IF ~HasSubject(state[r])
       THEN /\ state' = [state EXCEPT ![r].cognee_context = ""]
            /\ pc' = [pc EXCEPT ![r] = NextNode("get_context")]
            /\ lastFault' = [lastFault EXCEPT ![r] = "none"]
       ELSE \E outcome \in Outcomes :
              /\ UNCHANGED state
              /\ IF outcome = "fail"
                   THEN /\ lastFault' = [lastFault EXCEPT ![r] = "context_store"]
                        /\ pc' = [pc EXCEPT ![r] = "get_context_search"]
                   ELSE /\ lastFault' = [lastFault EXCEPT ![r] = "none"]
                        /\ pc' = [pc EXCEPT ![r] =
                                    IF GraphExists(GraphId(state[r].patient_id))
                                      THEN "get_context_search"
                                      ELSE "get_context_create"]
  /\ UNCHANGED <<now, saveTs, result, modelCalls, graphs,
                 history, mlflow, started>>

\* cognee.createGraph of initializePatientGraph; what the store does when the
\* graph exists by now is the store's: it keeps the graph or replaces it
GetContextCreate(r) ==
  \E outcome \in Outcomes, onExisting \in {"keep", "replace"} :
    LET graphId == GraphId(state[r].patient_id) IN
    /\ pc[r] = "get_context_create"
    /\ pc' = [pc EXCEPT ![r] = "get_context_search"]
    /\ IF outcome = "fail"
         THEN /\ lastFault' = [lastFault EXCEPT ![r] = "context_store"]
              /\ UNCHANGED graphs
         ELSE /\ lastFault' = [lastFault EXCEPT ![r] = "none"]
              /\ graphs' = IF GraphExists(graphId) /\ onExisting = "keep"
                             THEN graphs
                             ELSE (graphId :> <<>>) @@ graphs
    /\ UNCHANGED <<now, state, trace, saveTs, result,
                   modelCalls, history, mlflow, started>>

\* getPatientContext and the return of the node
GetContextSearch(r) ==
  \E outcome \in Outcomes :
    \E searchResults \in SearchResults(GraphId(state[r].patient_id), ContextLimit) :
      /\ pc[r] = "get_context_search"
      /\ pc' = [pc EXCEPT ![r] = NextNode("get_context")]
      /\ state' = [state EXCEPT ![r].cognee_context =
                     getPatientContext(outcome, searchResults)]
      /\ lastFault' = [lastFault EXCEPT ![r] =
                         IF outcome = "fail" THEN "context_store" ELSE "none"]
      /\ UNCHANGED <<now, trace, saveTs, result,
                     modelCalls, graphs, history, mlflow, started>>

(***************************************************************************)
(* diagnose (index.js 369-402).                                            *)
(***************************************************************************)
ParseDiagnosis(content) ==
  LET parsed == JSONParse(CleanResponse(content)) IN
  IF ~parsed.ok THEN [fault |-> "diagnose_parse", data |-> DiagnosisErrorMarker]
  ELSE LET validation == validateDiagnosisSchema(parsed.value) IN
       IF validation.threw \/ ~validation.isValid
         THEN [fault |-> "diagnose_schema", data |-> DiagnosisErrorMarker]
         ELSE [fault |-> "none", data |-> parsed.value]

DiagnoseNode(st, file, call, content) ==
  LET context == IF st.cognee_context # ""
                   THEN "\n\nHistorial relevante del paciente:\n" \o st.cognee_context
                   ELSE ""
      diagnosisPrompt == loadPrompt("diagnosis", file)
      formattedPrompt == [template |-> diagnosisPrompt.v,
                          extracted |-> st.extracted_data,
                          context |-> context,
                          text |-> LastMessage(st).content]
      request == [model |-> "gpt-4", prompt |-> formattedPrompt]
  IN IF ~Truthy(diagnosisPrompt)
       THEN [threw |-> TRUE, message |-> "Failed to load diagnosis prompt",
             fault |-> "diagnose_prompt", calls |-> <<>>,
             diagnosis |-> st.diagnosis]
     ELSE IF call = "fail"
       THEN [threw |-> TRUE, message |-> "provider error",
             fault |-> "diagnose_provider", calls |-> <<request>>,
             diagnosis |-> st.diagnosis]
     ELSE [threw |-> FALSE, message |-> "",
           fault |-> ParseDiagnosis(content).fault, calls |-> <<request>>,
           diagnosis |-> ParseDiagnosis(content).data]

Diagnose(r) ==
  \E case \in CompletionCases(DiagnosisCompletions) :
    LET out == DiagnoseNode(state[r], case.file, case.call, case.content) IN
    /\ pc[r] = "diagnose"
    /\ trace' = [trace EXCEPT ![r] = Append(@, "diagnose")]
    /\ lastFault' = [lastFault EXCEPT ![r] = out.fault]
    /\ IF out.threw
         THEN /\ pc' = [pc EXCEPT ![r] = "done"]
              /\ result' = [result EXCEPT ![r] = FailureResult(out.message)]
              /\ state' = [state EXCEPT ![r] = createState]
              /\ modelCalls' = [modelCalls EXCEPT ![r] = <<>>]
         ELSE /\ pc' = [pc EXCEPT ![r] = NextNode("diagnose")]
              /\ state' = [state EXCEPT ![r].diagnosis = out.diagnosis]
              /\ modelCalls' = [modelCalls EXCEPT ![r] = @ \o out.calls]
              /\ UNCHANGED result
    /\ UNCHANGED <<now, saveTs, graphs, history, mlflow, started>>

(***************************************************************************)
(* detect_drift (index.js 405-425).                                        *)
(***************************************************************************)
\* the instants of the timestamps of history entries, entry by entry
EntryInstants(entries) ==
  LET at[i \in 0..Len(entries)] ==
        IF i = 0 THEN <<>>
        ELSE Append(at[i - 1], InstantOf(Get(entries[i], "timestamp").v))
  IN at[Len(entries)]

RECURSIVE NewestFirst(_, _, _)
\* the orders, newest first, of the indices I of entries with the instants at,
\* cut after k; entries of one timestamp come in the order of the store
NewestFirst(at, I, k) ==
  IF I = {} \/ k = 0 THEN {<<>>}
  ELSE UNION {{<<i>> \o rest : rest \in NewestFirst(at, I \ {i}, k - 1)} :
                i \in {j \in I : \A h \in I : at[j] >= at[h]}}

\* a read without the limit (not the code's: C28 must fail on it)
RecentHistoryAll(entries, limit) ==
  LET at == EntryInstants(entries) IN
  {[i \in 1..Len(order) |-> entries[order[i]]] :
     order \in NewestFirst(at, 1..Len(entries), Len(entries))}

\* .orderBy('timestamp', 'desc').limit(limit) on a history collection: the
\* entries newest first, entries of one timestamp in the order of the store
RecentHistory(entries, limit) ==
  LET at == EntryInstants(entries) IN
  {[i \in 1..Len(order) |-> entries[order[i]]] :
     order \in NewestFirst(at, 1..Len(entries), limit)}

\* one history document for every subject (not the code's: C25 must fail on
\* it)
HistoryDocShared(patientId) == "anonymous"

\* the history document read and written for a subject id
HistoryDoc(patientId) == JsString(OrElse(patientId, Str("anonymous")))

\* a node that reports a failed history read as a drift flag (not the code's:
\* C10 must fail on it)
DetectDriftNodeReporting(st, outcome, previousResults) ==
  IF outcome = "fail" THEN <<"Error in drift detection">>
  ELSE IF detectDrift(st.extracted_data, previousResults).threw THEN <<>>
  ELSE detectDrift(st.extracted_data, previousResults).flags

\* the node on the outcome of the history read
DetectDriftNode(st, outcome, previousResults) ==
  IF outcome = "fail" \/ detectDrift(st.extracted_data, previousResults).threw
    THEN <<>>
    ELSE detectDrift(st.extracted_data, previousResults).flags

DetectDrift(r) ==
  \E outcome \in Outcomes :
    \E previousResults \in
         RecentHistory(history[HistoryDoc(state[r].patient_id)], DriftWindow) :
      /\ pc[r] = "detect_drift"
      /\ trace' = [trace EXCEPT ![r] = Append(@, "detect_drift")]
      /\ pc' = [pc EXCEPT ![r] = NextNode("detect_drift")]
      /\ state' = [state EXCEPT ![r].drift_flags =
                     DetectDriftNode(state[r], outcome, previousResults)]
      /\ lastFault' = [lastFault EXCEPT ![r] =
                         IF outcome = "fail" THEN "drift_store" ELSE "none"]
      /\ UNCHANGED <<now, saveTs, result, modelCalls,
                     graphs, history, mlflow, started>>

(***************************************************************************)
(* save_to_graph (index.js 428-444) with addToPatientGraph (211-244): the  *)
(* node awaits cognee.addNode and then the Firestore add.                  *)
(***************************************************************************)
\* the node up to the answer of cognee.addNode.  A graph that does not exist
\* takes no node; what the store does with a node whose id it already holds is
\* the store's: it replaces the node or refuses the new one
SaveToGraph(r) ==
  /\ pc[r] = "save_to_graph"
  /\ trace' = [trace EXCEPT ![r] = Append(@, "save_to_graph")]
  /\ IF ~HasSubject(state[r])
       THEN /\ pc' = [pc EXCEPT ![r] = NextNode("save_to_graph")]
            /\ lastFault' = [lastFault EXCEPT ![r] = "none"]
            /\ UNCHANGED <<now, graphs, saveTs>>
       ELSE \E ms \in ClockReadings, outcome \in Outcomes,
               onDuplicate \in {"replace", "refuse"} :
              LET graphId == GraphId(state[r].patient_id)
                  node == ConsultationNode(state[r], ms)
                  stored == /\ outcome = "ok"
                            /\ GraphExists(graphId)
                            /\ \/ onDuplicate = "replace"
                               \/ \A i \in 1..Len(graphs[graphId]) :
                                    graphs[graphId][i].id # node.id
              IN /\ now' = ms
                 /\ IF stored
                      THEN /\ graphs' = [graphs EXCEPT ![graphId] = PutNode(@, node)]
                           /\ saveTs' = [saveTs EXCEPT ![r] = ISOString(ms)]
                           /\ pc' = [pc EXCEPT ![r] = "save_history"]
                           /\ lastFault' = [lastFault EXCEPT ![r] = "none"]
                      ELSE /\ pc' = [pc EXCEPT ![r] = NextNode("save_to_graph")]
                           /\ lastFault' = [lastFault EXCEPT ![r] = "save_store"]
                           /\ UNCHANGED <<graphs, saveTs>>
  /\ UNCHANGED <<state, result, modelCalls, history, mlflow, started>>

\* a persist step that returns the timestamp it saved as an update of the run
\* state (not the code's: C31 must fail on it)
SaveHistoryReturning(r) ==
  \E outcome \in Outcomes :
    /\ pc[r] = "save_history"
    /\ pc' = [pc EXCEPT ![r] = "END"]
    /\ saveTs' = [saveTs EXCEPT ![r] = ""]
    /\ state' = [state EXCEPT ![r].transcription = saveTs[r]]
    /\ lastFault' = [lastFault EXCEPT ![r] = "none"]
    /\ UNCHANGED <<now, trace, result, modelCalls, graphs, history, mlflow,
                   started>>

\* the Firestore add of addToPatientGraph and the return of the node
SaveHistory(r) ==
  \E outcome \in Outcomes :
    LET doc == HistoryDoc(state[r].patient_id) IN
    /\ pc[r] = "save_history"
    /\ pc' = [pc EXCEPT ![r] = NextNode("save_to_graph")]
    /\ saveTs' = [saveTs EXCEPT ![r] = ""]
    /\ IF outcome = "ok"
         THEN /\ history' = [history EXCEPT ![doc] =
                               Append(@, MedicalData(state[r], saveTs[r]))]
              /\ lastFault' = [lastFault EXCEPT ![r] = "none"]
         ELSE /\ lastFault' = [lastFault EXCEPT ![r] = "save_store"]
              /\ UNCHANGED history
    /\ UNCHANGED <<now, state, trace, result, modelCalls,
                   graphs, mlflow, started>>

(***************************************************************************)
(* After workflow.invoke: logToMLflow and the result (index.js 471-503,    *)
(* 276-305).  The request id, the latency and the timestamp of the result  *)
(* and of the log entry are values no step reads; they are left out.       *)
(***************************************************************************)
\* the parameters and metrics of logToMLflow (index.js 281-291)
ObservabilityEntry(extractionResult, diagnosisResult, driftFlags) ==
  [input_type |-> "text", model |-> "gpt-4", prompt_version |-> PromptVersion,
   symptoms_count |-> SymptomCount(extractionResult),
   extraction_success |-> IF Truthy(extractionResult) THEN 1 ELSE 0,
   diagnosis_success |-> IF Truthy(diagnosisResult) THEN 1 ELSE 0,
   drift_detected |-> IF Len(driftFlags) > 0 THEN 1 ELSE 0]

\* the object processMessage returns after the workflow (index.js 485-503)
SuccessResult(st) ==
  [patient_info |-> OrElse(Get(st.extracted_data, "patient_info"), EmptyObj),
   symptoms |-> OrElse(Get(st.extracted_data, "symptoms"), Arr(<<>>)),
   motive |-> OrElse(Get(st.extracted_data, "motive"), Str("")),
   diagnosis |-> OrElse(Get(st.diagnosis, "diagnosis"), Str("")),
   treatment |-> OrElse(Get(st.diagnosis, "treatment"), Str("")),
   recommendations |-> OrElse(Get(st.diagnosis, "recommendations"), Str("")),
   metadata |-> [model_version |-> "gpt-4", prompt_version |-> PromptVersion,
                 input_type |-> "text",
                 drift_detected |-> Len(st.drift_flags) > 0,
                 drift_flags |-> st.drift_flags],
   success |-> TRUE]

\* a logToMLflow without its catch: a failure of one of its calls reaches the
\* catch of processMessage (not the code's: C9 must fail on it)
AfterLoggingUncaught(st, failing) ==
  IF failing = "none" THEN SuccessResult(st) ELSE FailureResult("mlflow error")

\* what processMessage resolves to once logToMLflow has returned, failing being
\* the call of logToMLflow that failed ("none": no failure): logToMLflow
\* catches every failure of its calls (index.js 277, 302-304)
AfterLogging(st, failing) == SuccessResult(st)

\* workflow.invoke has resolved: logToMLflow up to the answer of mlflow.endRun,
\* or up to the failure of an earlier call and the return of processMessage
LogStart(r) ==
  \E failing \in {"none", "startRun", "logParam", "logMetric", "logArtifact"} :
    /\ pc[r] = "END"
    /\ mlflow' = [mlflow EXCEPT ![r] =
                    [calls |-> @.calls + 1,
                     status |-> IF failing = "startRun" THEN "none" ELSE "open",
                     entry |-> ObservabilityEntry(state[r].extracted_data,
                                 state[r].diagnosis, state[r].drift_flags)]]
    /\ lastFault' = [lastFault EXCEPT ![r] =
                       IF failing = "none" THEN "none" ELSE "log"]
    /\ IF failing = "none"
         THEN /\ pc' = [pc EXCEPT ![r] = "log_end"]
              /\ UNCHANGED <<result, state, modelCalls>>
         ELSE /\ pc' = [pc EXCEPT ![r] = "done"]
              /\ result' = [result EXCEPT ![r] = AfterLogging(state[r], failing)]
              /\ state' = [state EXCEPT ![r] = createState]
              /\ modelCalls' = [modelCalls EXCEPT ![r] = <<>>]
    /\ UNCHANGED <<now, trace, saveTs, graphs, history, started>>

\* mlflow.endRun answers, logToMLflow returns, processMessage returns
LogEnd(r) ==
  \E outcome \in Outcomes :
    /\ pc[r] = "log_end"
    /\ pc' = [pc EXCEPT ![r] = "done"]
    /\ mlflow' = [mlflow EXCEPT ![r].status =
                    IF outcome = "ok" THEN "closed" ELSE "open"]
    /\ lastFault' = [lastFault EXCEPT ![r] =
                       IF outcome = "ok" THEN "none" ELSE "log"]
    /\ result' = [result EXCEPT ![r] =
                    AfterLogging(state[r],
                                 IF outcome = "ok" THEN "none" ELSE "endRun")]
    /\ state' = [state EXCEPT ![r] = createState]
    /\ modelCalls' = [modelCalls EXCEPT ![r] = <<>>]
    /\ UNCHANGED <<now, trace, saveTs, graphs, history, started>>

\* a step of call r
RunStep(r) ==
  \/ Start(r)
  \/ Extract(r)
  \/ GetContext(r)
  \/ GetContextCreate(r)
  \/ GetContextSearch(r)
  \/ Diagnose(r)
  \/ DetectDrift(r)
  \/ SaveToGraph(r)
  \/ SaveHistory(r)
  \/ LogStart(r)
  \/ LogEnd(r)

\* calls made one after the other
Next == RunStep(1) /\ UNCHANGED <<unit, files, req>>

Spec == Init /\ [][Next]_vars

\* calls in flight together
NextConc == (\E r \in Runs : RunStep(r)) /\ UNCHANGED <<unit, files, req>>

SpecConc == Init /\ [][NextConc]_vars

(***************************************************************************)
(* The validators and detectDrift called on their own (index.js 82-156),   *)
(* on the values JSON.parse can hand them: null, numbers, strings, arrays  *)
(* and objects with missing or wrongly typed properties.  A behaviour makes *)
(* one call.                                                               *)
(***************************************************************************)
\* the object with the properties of f that are not undefined
ObjFrom(f) == Obj([k \in {j \in DOMAIN f : f[j] # Undefined} |-> f[k]])

\* values that are not objects with properties
PlainValues == {Null, Num(5), Str("tos"), Arr(<<>>), Arr(<<Str("tos")>>), EmptyObj}

PatientInfoInputs ==
  {Undefined, Null, Str("Ana"), Num(0)}
    \cup {ObjFrom([name |-> n, age |-> a, id |-> i]) :
            n \in {Str("Ana"), Num(1), Undefined},
            a \in {Num(34), Str("34"), Undefined},
            i \in {Null, Str("p1"), Num(7), Undefined}}

SymptomInputs ==
  {Undefined, Str("tos"), Arr(<<>>), Arr(<<Str("tos")>>),
   Arr(<<Str("tos"), Str("fiebre")>>), Arr(<<Str("tos"), Num(1)>>),
   Arr(<<Num(1), Str("tos"), Null>>)}

MotiveInputs == {Str("consulta"), Num(3), Undefined}

MedicationInputs == {Undefined, Arr(<<Str("ibuprofeno")>>), Arr(<<Num(1)>>)}

AllergyInputs == {Undefined, Arr(<<Null>>)}

ExtractionInputs ==
  PlainValues
    \cup {ObjFrom([patient_info |-> pi, symptoms |-> sy, motive |-> mo,
                   medications |-> me, allergies |-> al]) :
            pi \in PatientInfoInputs, sy \in SymptomInputs, mo \in MotiveInputs,
            me \in MedicationInputs, al \in AllergyInputs}

DiagnosisFieldInputs == {Str("gripe"), Str(""), Num(1), Null, Arr(<<Str("a")>>), Undefined}

DiagnosisInputs ==
  PlainValues
    \cup {ObjFrom([diagnosis |-> d, treatment |-> t, recommendations |-> c]) :
            d \in DiagnosisFieldInputs, t \in DiagnosisFieldInputs,
            c \in DiagnosisFieldInputs}

\* an object with n symptoms, as extract and the history collection hold them
WithSymptoms(n) ==
  ObjFrom([patient_info |-> ObjFrom([name |-> Str("Ana"), age |-> Num(34), id |-> Null]),
           symptoms |-> Arr([i \in 1..n |-> Str("tos")]),
           motive |-> Str("consulta")])

\* what detect_drift hands to detectDrift as extractionResult: an extraction
\* that passed validation, or the error marker
CurrentInputs == {WithSymptoms(n) : n \in 0..MaxSymptoms} \cup {ExtractErrorMarker}

\* the entries of a history collection
EntryInputs == {WithSymptoms(n) : n \in {2, 3, 4}} \cup {EmptyObj}

\* the windows of previous results
WindowInputs ==
  UNION {[1..n -> EntryInputs] : n \in 0..MaxWindow}

CallValidateExtraction ==
  \E data \in ExtractionInputs :
    /\ unit = NoCall
    /\ unit' = [fn |-> "validateExtractionSchema", data |-> data,
                out |-> validateExtractionSchema(data)]
    /\ UNCHANGED <<now, pc, state, trace, saveTs, result, lastFault,
                   modelCalls, graphs, history, mlflow, started>>

CallValidateDiagnosis ==
  \E data \in DiagnosisInputs :
    /\ unit = NoCall
    /\ unit' = [fn |-> "validateDiagnosisSchema", data |-> data,
                out |-> validateDiagnosisSchema(data)]
    /\ UNCHANGED <<now, pc, state, trace, saveTs, result, lastFault,
                   modelCalls, graphs, history, mlflow, started>>

CallDetectDrift ==
  \E extractionResult \in CurrentInputs :
    \E previousResults \in WindowInputs :
      /\ unit = NoCall
      /\ unit' = [fn |-> "detectDrift", extractionResult |-> extractionResult,
                  previousResults |-> previousResults,
                  out |-> detectDrift(extractionResult, previousResults)]
      /\ UNCHANGED <<now, pc, state, trace, saveTs, result, lastFault,
                     modelCalls, graphs, history, mlflow, started>>

\* a list of errors that carries over what an earlier call collected (not
\* the code's: C27 must fail on it)
FreshErrorsKept(previous) == previous

\* `const errors = []` (index.js 83, 119): a call starts from an empty list,
\* whatever the calls before it collected
FreshErrors(previous) == <<>>

\* the input after a call: the validators read data and assign to none of it
AfterValidation(data) == data

\* the result of a call of validator result `again`, made after a call that
\* collected the errors `previous`
ResultAfter(previous, again) ==
  IF again.threw THEN again
  ELSE LET errors == FreshErrors(previous) \o again.errors
       IN [threw |-> FALSE, isValid |-> Len(errors) = 0, errors |-> errors]

\* two calls of validateExtractionSchema in a row, the second on what the
\* first left of its input
CallValidateExtractionTwice ==
  \E data \in ExtractionInputs :
    LET first == ResultAfter(<<>>, validateExtractionSchema(data))
        dataAfter == AfterValidation(data)
    IN /\ unit = NoCall
       /\ unit' = [fn |-> "validateTwice", validator |-> "validateExtractionSchema",
                   data |-> data, dataAfter |-> dataAfter, first |-> first,
                   second |-> ResultAfter(first.errors,
                                          validateExtractionSchema(dataAfter))]
       /\ UNCHANGED <<now, pc, state, trace, saveTs, result, lastFault,
                      modelCalls, graphs, history, mlflow, started>>

\* two calls of validateDiagnosisSchema in a row
CallValidateDiagnosisTwice ==
  \E data \in DiagnosisInputs :
    LET first == ResultAfter(<<>>, validateDiagnosisSchema(data))
        dataAfter == AfterValidation(data)
    IN /\ unit = NoCall
       /\ unit' = [fn |-> "validateTwice", validator |-> "validateDiagnosisSchema",
                   data |-> data, dataAfter |-> dataAfter, first |-> first,
                   second |-> ResultAfter(first.errors,
                                          validateDiagnosisSchema(dataAfter))]
       /\ UNCHANGED <<now, pc, state, trace, saveTs, result, lastFault,
                      modelCalls, graphs, history, mlflow, started>>

\* the words a completion may carry after its opening fence
FenceTags == {"json", "JSON", "javascript", "js", "text"}

\* a document in fences, with and without a tag, with and without line breaks
FencedCompletions(doc) ==
  {<<Fence, Word(tag), NL, Json(doc), NL, Fence>> : tag \in FenceTags}
    \cup {<<Fence, Word(tag), Json(doc), Fence>> : tag \in FenceTags}
    \cup {<<Fence, NL, Json(doc), NL, Fence>>, <<Fence, Json(doc), Fence>>,
          <<Fence, NL, Json(doc), NL, Fence, NL>>}

\* the completions the normalisation is called on
ParseInputs ==
  UNION {FencedCompletions(doc) \cup {<<Json(doc)>>, <<NL, Json(doc), NL>>} :
           doc \in {ValidExtraction, ValidDiagnosis, InvalidExtraction}}
    \cup {<<Word("Lo"), Word("siento")>>, <<>>}

\* the normalisation and the parse of a step (index.js 331-332, 388-389)
CallParseCompletion ==
  \E content \in ParseInputs :
    /\ unit = NoCall
    /\ unit' = [fn |-> "parseCompletion", content |-> content,
                out |-> JSONParse(CleanResponse(content))]
    /\ UNCHANGED <<now, pc, state, trace, saveTs, result, lastFault,
                   modelCalls, graphs, history, mlflow, started>>

NextUnit ==
  /\ \/ CallValidateExtraction
     \/ CallValidateDiagnosis
     \/ CallDetectDrift
     \/ CallValidateExtractionTwice
     \/ CallValidateDiagnosisTwice
     \/ CallParseCompletion
  /\ UNCHANGED <<files, req>>

SpecUnit == Init /\ [][NextUnit]_vars

(***************************************************************************)
(* Completion calls that never answer.  The nodes await                    *)
(* geminiModel.invoke (index.js 325-328) and openaiModel.invoke (382-385)  *)
(* with no timer beside the await, and the models are built without a      *)
(* timeout (45-56): a call the provider never answers leaves the node at   *)
(* its await.                                                              *)
(***************************************************************************)
\* extract has loaded its prompt and issued the call; no answer comes
ExtractUnanswered(r) ==
  /\ pc[r] = "extract"
  /\ Truthy(loadPrompt("extract", "ok"))
  /\ pc' = [pc EXCEPT ![r] = "extract_awaiting"]
  /\ trace' = [trace EXCEPT ![r] = Append(@, "extract")]
  /\ modelCalls' = [modelCalls EXCEPT ![r] =
                      @ \o ExtractNode(state[r], "ok", "fail", <<>>).calls]
  /\ UNCHANGED <<now, state, saveTs, result, lastFault, graphs, history,
                 mlflow, started>>

\* diagnose has loaded its prompt and issued the call; no answer comes
DiagnoseUnanswered(r) ==
  /\ pc[r] = "diagnose"
  /\ Truthy(loadPrompt("diagnosis", "ok"))
  /\ pc' = [pc EXCEPT ![r] = "diagnose_awaiting"]
  /\ trace' = [trace EXCEPT ![r] = Append(@, "diagnose")]
  /\ modelCalls' = [modelCalls EXCEPT ![r] =
                      @ \o DiagnoseNode(state[r], "ok", "fail", <<>>).calls]
  /\ UNCHANGED <<now, state, saveTs, result, lastFault, graphs, history,
                 mlflow, started>>

\* calls made one after the other, the providers free not to answer
NextLive ==
  /\ RunStep(1) \/ ExtractUnanswered(1) \/ DiagnoseUnanswered(1)
  /\ UNCHANGED <<unit, files, req>>

\* the event loop resumes a call in flight whenever what it awaits has settled
SpecLive ==
  /\ Init /\ [][NextLive]_vars
  /\ WF_vars(/\ pc[1] \notin {"idle", "done"} /\ RunStep(1)
             /\ UNCHANGED <<unit, files, req>>)

(***************************************************************************)
(* exports.transcribe (index.js 598-633) with the multer disk storage      *)
(* (22-35).  multer stores the upload before the handler runs; the handler *)
(* awaits the transcription, and what follows the await runs in one turn   *)
(* of the event loop, the response included.                               *)
(***************************************************************************)
\* file.originalname of an upload
OriginalNames == {"a.wav", "b.wav"}

\* the stored file's name, `${Date.now()}-${file.originalname}` (index.js 31)
UploadPath(ms, originalname) == ToString(ms) \o "-" \o originalname

\* what the handler has done once it has run to its end or an exception has
\* left it: the files then in the directory, the status sent (0: none)
Handled(dir, status) == [files |-> dir, status |-> status]

\* a catch block that leaves the file where it is (not the code's: C26 must
\* fail on it)
CatchBlockKeeping(path, dir, fs) == Handled(dir, 500)

\* the catch block (index.js 620-630): the file is removed when it exists, then
\* the 500 is sent; unlinkSync may raise (fs = "fail") and then nothing is sent
CatchBlock(path, dir, fs) ==
  IF path \in dir
    THEN IF fs = "ok" THEN Handled(dir \ {path}, 500) ELSE Handled(dir, 0)
    ELSE Handled(dir, 500)

\* the try block after the await (index.js 609-619) and its catch: call is the
\* outcome of openai.audio.transcriptions.create, fs that of unlinkSync on a
\* file that exists; unlinkSync raises on a file that does not exist
AfterTranscription(path, dir, call, fs) ==
  IF call = "ok" /\ path \in dir /\ fs = "ok"
    THEN Handled(dir \ {path}, 200)
    ELSE CatchBlock(path, dir, fs)

\* upload.single('audio') and the handler up to its await (index.js 600-613)
Upload(q) ==
  \E upload \in {"error", "nofile", "stored"}, ms \in ClockReadings,
     originalname \in OriginalNames :
    /\ req[q].at = "idle"
    /\ \A p \in Requests : p < q => req[p].at # "idle"
    /\ IF upload = "stored"
         THEN /\ now' = ms
              /\ files' = files \cup {UploadPath(ms, originalname)}
              /\ req' = [req EXCEPT ![q] =
                           [at |-> "transcribing",
                            path |-> UploadPath(ms, originalname), status |-> 0]]
         ELSE /\ req' = [req EXCEPT ![q] =
                           [at |-> "done", path |-> "", status |-> 400]]
              /\ UNCHANGED <<now, files>>

\* the transcription call settles and the handler runs to its end
Transcribed(q) ==
  \E call \in Outcomes, fs \in Outcomes :
    LET out == AfterTranscription(req[q].path, files, call, fs) IN
    /\ req[q].at = "transcribing"
    /\ files' = out.files
    /\ req' = [req EXCEPT ![q].at = "done", ![q].status = out.status]
    /\ UNCHANGED now

NextTranscribe ==
  /\ \E q \in Requests : Upload(q) \/ Transcribed(q)
  /\ UNCHANGED <<pc, state, trace, saveTs, result, lastFault, modelCalls,
                 graphs, history, mlflow, started, unit>>

SpecTranscribe == Init /\ [][NextTranscribe]_vars

(***************************************************************************)
(* Calls on a function instance that starts with history in Firestore: the *)
(* history collections outlive the instance, the Cognee graphs are the     *)
(* instance's own and start empty (index.js 58).                           *)
(***************************************************************************)
\* a history entry as addToPatientGraph stored it at clock reading ms, for a
\* consultation with count symptoms (index.js 216-225, 239-242)
StoredEntry(ms, count) ==
  MedicalData([createState EXCEPT
                 !.messages = <<[role |-> "user", content |-> "tengo fiebre y tos"]>>,
                 !.extracted_data = WithSymptoms(count),
                 !.diagnosis = ValidDiagnosis],
              ISOString(ms))

\* n entries stored one per millisecond before the instance started, oldest
\* first: one symptom in each of the DriftWindow newest, none in the older ones
StoredHistory(n) ==
  [i \in 1..n |-> StoredEntry(i - n - 1,
                              IF n - i + 1 > DriftWindow THEN 0 ELSE 1)]

InitStored ==
  \E n \in (MaxStored - 2)..MaxStored :
    /\ now = 0
    /\ pc = [r \in Runs |-> "idle"]
    /\ state = [r \in Runs |-> createState]
    /\ trace = [r \in Runs |-> <<>>]
    /\ saveTs = [r \in Runs |-> ""]
    /\ result = [r \in Runs |-> Pending]
    /\ lastFault = [r \in Runs |-> "none"]
    /\ modelCalls = [r \in Runs |-> <<>>]
    /\ graphs = [g \in {} |-> <<>>]
    /\ history = [d \in Docs |-> StoredHistory(n)]
    /\ mlflow = [r \in Runs |-> NoMlflowRun]
    /\ started = 0
    /\ unit = NoCall
    /\ files = {}
    /\ req = [q \in Requests |-> NoRequest]

SpecStored == InitStored /\ [][Next]_vars

(***************************************************************************)
(* Properties.                                                             *)
(***************************************************************************)
\* the order of the steps of a run
PipelineOrder ==
  <<"extract", "get_context", "diagnose", "detect_drift", "save_to_graph">>

InFlight(r) == pc[r] \notin {"idle", "done"}
Returned(r) == pc[r] = "done"

\* the messages of the failures that end a run: a prompt that cannot be
\* loaded, a completion call that fails
AbortMessages ==
  {"Failed to load extraction prompt", "Failed to load diagnosis prompt",
   "provider error"}

\* C1: a failed completion call of extract (of diagnose) leaves the error
\* marker in extracted_data (in diagnosis) and the run goes on to the next step
C1_ProviderFailureDegrades ==
  \A r \in Runs :
    /\ lastFault[r] = "extract_provider"
         => /\ pc[r] = "get_context"
            /\ state[r].extracted_data = ExtractErrorMarker
    /\ lastFault[r] = "diagnose_provider"
         => /\ pc[r] = "detect_drift"
            /\ state[r].diagnosis = DiagnosisErrorMarker

C3_ProcessMessageTotal ==
  \A r \in Runs :
    Returned(r) =>
      /\ "success" \in DOMAIN result[r]
      /\ result[r].success \in BOOLEAN
      /\ result[r].success => "metadata" \in DOMAIN result[r]
      /\ ~result[r].success
           => /\ DOMAIN result[r] = {"success", "error", "response"}
              /\ result[r].error \in AbortMessages
              /\ result[r].response = FallbackResponse

\* a call has returned the failure object of a completion call that failed in
\* diagnose, after extract and get_context had run
C3_Witness ==
  \E r \in Runs :
    /\ Returned(r) /\ ~result[r].success
    /\ result[r].error = "provider error"
    /\ result[r].response = FallbackResponse
    /\ trace[r] = SubSeq(PipelineOrder, 1, 3)

\* the steps started before a run stands at position p
StepsStarted(p) ==
  CASE p = "extract" -> 0
    [] p = "get_context" -> 1
    [] p \in {"get_context_create", "get_context_search", "diagnose"} -> 2
    [] p = "detect_drift" -> 3
    [] p = "save_to_graph" -> 4
    [] OTHER -> 5

\* C4: the steps of a run start one after the other in the fixed order, each at
\* most once; a run that reaches the terminal state has taken all of them
C4_StepsInOrder ==
  \A r \in Runs :
    /\ InFlight(r) => trace[r] = SubSeq(PipelineOrder, 1, StepsStarted(pc[r]))
    /\ Returned(r)
         => /\ \E n \in 0..Len(PipelineOrder) : trace[r] = SubSeq(PipelineOrder, 1, n)
            /\ result[r].success => trace[r] = PipelineOrder

C4_Witness ==
  \E r \in Runs : pc[r] = "END" /\ trace[r] = PipelineOrder

\* C5: a run without a subject id keeps an empty context, and no step of it
\* changes a patient graph or a history collection
C5_NoSubjectNoPersistence ==
  /\ [](\A r \in Runs :
          InFlight(r) /\ ~Truthy(state[r].patient_id)
            => state[r].cognee_context = "")
  /\ [][\A r \in Runs :
          InFlight(r) /\ ~Truthy(state[r].patient_id) /\ pc'[r] # pc[r]
            => graphs' = graphs /\ history' = history]_vars

\* a run without a subject id is past its persist step while the stores hold
\* the consultation of an earlier run
C5_Witness ==
  \E r \in Runs :
    /\ pc[r] = "END" /\ ~Truthy(state[r].patient_id)
    /\ \E d \in Docs : Len(history[d]) > 0
    /\ \E g \in DOMAIN graphs : Len(graphs[g]) > 0

\* the subject ids that address a store
Subjects == PatientIds \ {Null}

\* C6: every record a memory query for a subject may return (the context
\* search of get_context, searchPatient, getHistory) was written for that
\* subject
C6_MemoryIsolation ==
  \A p \in Subjects :
    \A found \in SearchResults(GraphId(p), ContextLimit) \cup searchPatient(p)
                   \cup {getHistory(p)} :
      \A i \in 1..Len(found) : found[i].metadata.patient_id = p

\* two subjects have a consultation stored each
C6_Witness ==
  \A p \in Subjects : Len(getHistory(p)) > 0

\* C7: when two runs for one subject have both finished their persist step
\* without a store error, the subject's graph and history collection hold an
\* entry for each of them
C7_ConcurrentSavesKept ==
  \A r, q \in Runs :
    ( /\ r # q
      /\ pc[r] = "END" /\ pc[q] = "END"
      /\ lastFault[r] = "none" /\ lastFault[q] = "none"
      /\ Truthy(state[r].patient_id)
      /\ state[r].patient_id = state[q].patient_id )
    => /\ Len(getHistory(state[r].patient_id)) >= 2
       /\ Len(history[HistoryDoc(state[r].patient_id)]) >= 2

\* C8: every call of processMessage that has returned has called logToMLflow
\* exactly once
C8_OneLogPerRun ==
  \A r \in Runs : Returned(r) => mlflow[r].calls = 1

\* C9: the result returned after logToMLflow is the result of the pipeline
\* state, whichever call of logToMLflow failed
C9_LoggingFailureHarmless ==
  [][\A r \in Runs :
       pc[r] \in {"END", "log_end"} /\ pc'[r] = "done"
         => result'[r] = SuccessResult(state[r])]_vars

\* a run has returned success although its logging failed
C9_Witness ==
  \E r \in Runs :
    /\ Returned(r) /\ lastFault[r] = "log" /\ mlflow[r].status = "open"
    /\ result[r].success
    /\ result[r].symptoms = Get(ValidExtraction, "symptoms")

EntryOfRun(e, st) ==
  /\ Get(e, "symptoms")
       = (IF st.extracted_data = ExtractErrorMarker THEN Arr(<<>>)
          ELSE Get(st.extracted_data, "symptoms"))
  /\ \A f \in {"diagnosis", "treatment", "recommendations"} :
       Get(e, f) = (IF st.diagnosis = DiagnosisErrorMarker THEN Str("")
                    ELSE Get(st.diagnosis, f))
  /\ Get(e, "raw_text") = Str(st.messages[Len(st.messages)].content)

\* C11: a run with a subject id whose persist step meets no store error adds
\* exactly one entry to the history of its subject, built from its own state
\* (empty fields for an error marker); no other step of a run writes history
C11_PersistWritesOneRecord ==
  [][\A r \in Runs :
       LET doc == JsString(state[r].patient_id) IN
       /\ pc[r] = "save_to_graph" /\ pc'[r] = "END" /\ Truthy(state[r].patient_id)
            => lastFault'[r] = "save_store"
       /\ pc[r] = "save_history" /\ pc'[r] = "END" /\ lastFault'[r] = "none"
            => /\ Truthy(state[r].patient_id)
               /\ history'[doc] # history[doc]
               /\ Len(history'[doc]) = Len(history[doc]) + 1
               /\ SubSeq(history'[doc], 1, Len(history[doc])) = history[doc]
               /\ \A d \in Docs \ {doc} : history'[d] = history[d]
               /\ EntryOfRun(history'[doc][Len(history'[doc])], state[r])
       /\ pc'[r] # pc[r] /\ pc[r] # "save_history" => history' = history]_vars

\* a run whose extraction was degraded and whose diagnosis was not has written
\* its entry, after the entry of an earlier run
C11_Witness ==
  \E r \in Runs :
    /\ pc[r] = "END" /\ lastFault[r] = "none" /\ Truthy(state[r].patient_id)
    /\ state[r].extracted_data = ExtractErrorMarker
    /\ state[r].diagnosis = ValidDiagnosis
    /\ LET h == history[JsString(state[r].patient_id)] IN
         /\ Len(h) = 2
         /\ Get(h[2], "symptoms") = Arr(<<>>)
         /\ Get(h[2], "diagnosis") = Get(ValidDiagnosis, "diagnosis")
         /\ Get(h[2], "raw_text") = Str("tengo fiebre y tos")

\* the elements of a sequence
Elems(seq) == {seq[i] : i \in 1..Len(seq)}

\* an array all of whose elements are strings
StringArray(v) == v.t = "array" /\ \A i \in 1..Len(v.v) : v.v[i].t = "string"

\* the well-typed extraction outputs: patient_info present with a string name,
\* a numeric age and an id that is a string or null; symptoms a sequence of
\* strings; motive a string
WellTypedExtraction(data) ==
  LET pi == Get(data, "patient_info") IN
  /\ pi.t = "object"
  /\ Get(pi, "name").t = "string"
  /\ Get(pi, "age").t = "number"
  /\ Get(pi, "id").t \in {"string", "null"}
  /\ StringArray(Get(data, "symptoms"))
  /\ Get(data, "motive").t = "string"

\* C12: validateExtractionSchema answers isValid = true with no errors on the
\* well-typed outputs, and isValid = false with a non-empty error list on every
\* other input
C12_ExtractionValidatorExact ==
  unit.fn = "validateExtractionSchema"
    => /\ ~unit.out.threw
       /\ unit.out.isValid <=> WellTypedExtraction(unit.data)
       /\ unit.out.isValid <=> unit.out.errors = <<>>

\* C13: a call of a validator returns a result, whatever its input
C13_ValidatorsNeverThrow ==
  unit.fn \in {"validateExtractionSchema", "validateDiagnosisSchema"}
    => ~unit.out.threw

\* the violations of an extraction output, one text for each
ExtractionViolations(data) ==
  LET pi == Get(data, "patient_info")
      sy == Get(data, "symptoms")
  IN (IF ~Truthy(pi) THEN {"Missing patient_info"}
      ELSE {"patient_info.name must be string" : x \in
              {y \in {1} : Get(pi, "name").t # "string"}}
           \cup {"patient_info.age must be number" : x \in
              {y \in {1} : Get(pi, "age").t # "number"}}
           \cup {"patient_info.id must be string or null" : x \in
              {y \in {1} : Get(pi, "id").t \notin {"string", "null"}}})
     \cup (IF sy.t # "array" THEN {"symptoms must be array"}
           ELSE {"symptom[" \o ToString(i - 1) \o "] must be string" :
                   i \in {j \in 1..Len(sy.v) : sy.v[j].t # "string"}})
     \cup {"motive must be string" : x \in
             {y \in {1} : Get(data, "motive").t # "string"}}

\* C14: the error list of validateExtractionSchema holds one entry for each
\* violation of its input, "Missing patient_info" for an input without
\* patient_info, and isValid is false when there is one
C14_EveryViolationReported ==
  unit.fn = "validateExtractionSchema"
    => /\ ~unit.out.threw
       /\ Elems(unit.out.errors) = ExtractionViolations(unit.data)
       /\ Len(unit.out.errors) = Cardinality(ExtractionViolations(unit.data))
       /\ ~Truthy(Get(unit.data, "patient_info"))
            => /\ "Missing patient_info" \in Elems(unit.out.errors)
               /\ ~unit.out.isValid

\* C15: an extraction output with an element of medications or of allergies
\* that is not a string fails validation
C15_ElementTypesEnforced ==
  ( /\ unit.fn = "validateExtractionSchema"
    /\ \E f \in {"medications", "allergies"} :
         /\ Get(unit.data, f).t = "array"
         /\ ~StringArray(Get(unit.data, f)) )
    => ~unit.out.threw /\ ~unit.out.isValid

\* the fields of a diagnosis output that are not strings
OffendingFields(data) ==
  {f \in {"diagnosis", "treatment", "recommendations"} : Get(data, f).t # "string"}

\* C16: validateDiagnosisSchema accepts a value exactly when its three fields
\* are strings and answers one error for each field that is not; a diagnosis
\* held by a run state is an accepted value or the error marker
C16_DiagnosisValidatorExact ==
  /\ unit.fn = "validateDiagnosisSchema"
       => /\ ~unit.out.threw
          /\ unit.out.isValid <=> OffendingFields(unit.data) = {}
          /\ Elems(unit.out.errors)
               = {f \o " must be string" : f \in OffendingFields(unit.data)}
          /\ Len(unit.out.errors) = Cardinality(OffendingFields(unit.data))
  /\ \A r \in Runs :
       \/ state[r].diagnosis \in {EmptyObj, DiagnosisErrorMarker}
       \/ OffendingFields(state[r].diagnosis) = {}

\* the number of symptoms of a value: the length of its symptoms sequence,
\* 0 when it has none
CountOf(x) ==
  IF Get(x, "symptoms").t = "array" THEN Len(Get(x, "symptoms").v) ELSE 0

\* the sum of the symptom counts of a window
SumOf(window) ==
  LET sum[i \in 0..Len(window)] ==
        IF i = 0 THEN 0 ELSE sum[i - 1] + CountOf(window[i])
  IN sum[Len(window)]

\* the texts a symptom-count variance flag can have
VarianceFlags ==
  {"Symptom count variance detected: current=" \o ToString(c)
     \o ", avg=" \o ToString(w) \o "." \o ToString(d) :
     c \in 0..(MaxSymptoms + 1), w \in 0..(MaxSymptoms + 1), d \in 0..9}

\* C17: on a non-empty window of n results whose symptom counts sum to S,
\* detectDrift emits one variance flag when |C*n - S| > 3*n for the symptom
\* count C of the current extraction, and none otherwise
C17_VarianceRule ==
  (unit.fn = "detectDrift" /\ Len(unit.previousResults) > 0)
    => LET C == CountOf(unit.extractionResult)
           n == Len(unit.previousResults)
           S == SumOf(unit.previousResults)
           emitted == {i \in 1..Len(unit.out.flags) :
                         unit.out.flags[i] \in VarianceFlags}
       IN /\ ~unit.out.threw
          /\ Cardinality(emitted)
               = (IF C * n - S > 3 * n \/ S - C * n > 3 * n THEN 1 ELSE 0)
          /\ unit.out.hasDrift <=> Len(unit.out.flags) > 0

\* window counts [2, 3, 4] and a current extraction of 7 symptoms: flagged
C17_Witness ==
  /\ unit.fn = "detectDrift"
  /\ unit.previousResults = <<WithSymptoms(2), WithSymptoms(3), WithSymptoms(4)>>
  /\ unit.extractionResult = WithSymptoms(7)
  /\ unit.out.hasDrift
  /\ unit.out.flags = <<"Symptom count variance detected: current=7, avg=3.0">>

\* C18: on an empty window detectDrift emits no variance flag; hasDrift is
\* true exactly when the current extraction fails validation, and the flags are
\* then the one schema flag with the validator's error list
C18_EmptyWindow ==
  (unit.fn = "detectDrift" /\ unit.previousResults = <<>>)
    => LET validation == validateExtractionSchema(unit.extractionResult) IN
       /\ ~unit.out.threw
       /\ \A i \in 1..Len(unit.out.flags) : unit.out.flags[i] \notin VarianceFlags
       /\ unit.out.hasDrift <=> ~WellTypedExtraction(unit.extractionResult)
       /\ unit.out.hasDrift
            => unit.out.flags
                 = <<"Schema validation failed: " \o Join(validation.errors, ", ")>>
       /\ ~unit.out.hasDrift => unit.out.flags = <<>>

\* the error marker on an empty window: the schema flag alone
C18_Witness ==
  /\ unit.fn = "detectDrift"
  /\ unit.previousResults = <<>>
  /\ unit.extractionResult = ExtractErrorMarker
  /\ unit.out.hasDrift
  /\ unit.out.flags
       = <<"Schema validation failed: Missing patient_info, "
             \o "symptoms must be array, motive must be string">>

\* a run state that holds the model's valid extraction and valid diagnosis
HappyState(st) ==
  st.extracted_data = ValidExtraction /\ st.diagnosis = ValidDiagnosis

\* C19: when both completions are well-formed, schema-valid JSON and the
\* history of the run's subject is empty, detect_drift leaves no flag, the
\* later steps leave the run state as it is, and processMessage returns
\* success with the model's symptoms, diagnosis, treatment and
\* recommendations, no drift flags and drift_detected = false
C19_HappyPath ==
  /\ [](/\ ParseExtraction(<<Json(ValidExtraction)>>)
             = [fault |-> "none", data |-> ValidExtraction]
        /\ ParseDiagnosis(<<Json(ValidDiagnosis)>>)
             = [fault |-> "none", data |-> ValidDiagnosis])
  /\ [][\A r \in Runs :
          /\ ( /\ pc[r] = "detect_drift" /\ pc'[r] # pc[r]
               /\ HappyState(state[r])
               /\ history[HistoryDoc(state[r].patient_id)] = <<>> )
               => /\ pc'[r] = "save_to_graph"
                  /\ state'[r].drift_flags = <<>>
                  /\ HappyState(state'[r])
          /\ pc[r] \in {"save_to_graph", "save_history"} /\ pc'[r] # pc[r]
               => pc'[r] \in {"save_history", "END"} /\ state'[r] = state[r]
          /\ pc[r] = "END" /\ pc'[r] = "log_end" => state'[r] = state[r]
          /\ ( /\ pc[r] \in {"END", "log_end"} /\ pc'[r] = "done"
               /\ HappyState(state[r]) /\ state[r].drift_flags = <<>> )
               => /\ result'[r].success
                  /\ result'[r].symptoms = Get(ValidExtraction, "symptoms")
                  /\ Len(result'[r].symptoms.v) > 0
                  /\ \A f \in {"diagnosis", "treatment", "recommendations"} :
                       /\ result'[r][f] = Get(ValidDiagnosis, f)
                       /\ result'[r][f].t = "string" /\ result'[r][f].v # ""
                  /\ result'[r].metadata.drift_flags = <<>>
                  /\ result'[r].metadata.drift_detected = FALSE]_vars

\* the first call has returned the happy result; no history was ever stored
C19_Witness ==
  /\ started = 1
  /\ Returned(1) /\ result[1].success
  /\ result[1].symptoms = Get(ValidExtraction, "symptoms")
  /\ result[1].diagnosis = Get(ValidDiagnosis, "diagnosis")
  /\ result[1].treatment = Get(ValidDiagnosis, "treatment")
  /\ result[1].metadata.drift_detected = FALSE
  /\ lastFault[1] = "none"
  /\ \A d \in Docs : history[d] = <<>>

\* C20: the degraded output of a step whose parsed completion failed schema
\* validation differs from the degraded output of a parse failure: it carries
\* the validator's violation list
C20_ViolationListRetained ==
  \A r \in Runs :
    /\ lastFault[r] = "extract_schema"
         => state[r].extracted_data
              # ParseExtraction(<<Word("Lo"), Word("siento")>>).data
    /\ lastFault[r] = "diagnose_schema"
         => state[r].diagnosis
              # ParseDiagnosis(<<Word("Lo"), Word("siento")>>).data

\* C22: a step whose prompt cannot be loaded throws before it calls the model,
\* whatever the model would have answered; the run returns the failure object
\* with the step's message, no later step is taken and no store is written
C22_PromptFailureFatal ==
  /\ [](\A r \in Runs :
          /\ InFlight(r)
               => \A call \in Outcomes :
                    /\ \A c \in ExtractCompletions :
                         LET out == ExtractNode(state[r], "fail", call, c) IN
                         /\ out.threw /\ out.calls = <<>>
                         /\ out.message = "Failed to load extraction prompt"
                    /\ \A c \in DiagnosisCompletions :
                         LET out == DiagnoseNode(state[r], "fail", call, c) IN
                         /\ out.threw /\ out.calls = <<>>
                         /\ out.message = "Failed to load diagnosis prompt"
          /\ lastFault[r] = "extract_prompt"
               => /\ pc[r] = "done" /\ trace[r] = <<"extract">>
                  /\ result[r] = [success |-> FALSE, response |-> FallbackResponse,
                                  error |-> "Failed to load extraction prompt"]
          /\ lastFault[r] = "diagnose_prompt"
               => /\ pc[r] = "done" /\ trace[r] = SubSeq(PipelineOrder, 1, 3)
                  /\ result[r] = [success |-> FALSE, response |-> FallbackResponse,
                                  error |-> "Failed to load diagnosis prompt"])
  /\ [][\A r \in Runs :
          /\ pc'[r] # pc[r]
          /\ lastFault'[r] \in {"extract_prompt", "diagnose_prompt"}
          => /\ history' = history /\ graphs' = graphs
             /\ modelCalls'[r] = <<>>]_vars

\* the diagnosis prompt of a run with a subject could not be loaded; the run
\* has returned its failure object
C22_Witness ==
  \E r \in Runs :
    /\ lastFault[r] = "diagnose_prompt" /\ Returned(r)
    /\ ~result[r].success
    /\ \E g \in DOMAIN graphs : graphs[g] = <<>>

\* the models called by the calls of a run
ModelsCalled(calls) == [i \in 1..Len(calls) |-> calls[i].model]

\* C23: a run in flight has called the extraction model once when extract is
\* over and the diagnosis model once when diagnose is over, and never more;
\* whatever a step meets, it issues at most one call
C23_NoRetries ==
  \A r \in Runs :
    InFlight(r) =>
      /\ ModelsCalled(modelCalls[r])
           = (IF pc[r] = "extract" THEN <<>>
              ELSE IF StepsStarted(pc[r]) <= 2 THEN <<"gemini-pro">>
              ELSE <<"gemini-pro", "gpt-4">>)
      /\ \A case \in CompletionCases(ExtractCompletions) :
           Len(ExtractNode(state[r], case.file, case.call, case.content).calls) <= 1
      /\ \A case \in CompletionCases(DiagnosisCompletions) :
           Len(DiagnoseNode(state[r], case.file, case.call, case.content).calls) <= 1

\* both steps met a completion that did not parse; the run stands at the
\* terminal state with one call to each model
C23_Witness ==
  \E r \in Runs :
    /\ pc[r] = "END"
    /\ state[r].extracted_data = ExtractErrorMarker
    /\ state[r].diagnosis = DiagnosisErrorMarker
    /\ ModelsCalled(modelCalls[r]) = <<"gemini-pro", "gpt-4">>

\* a node as the persist step of a run state writes it at clock reading ms
WrittenBy(node, st, ms) ==
  /\ node.type = "medical_consultation"
  /\ node.metadata.patient_id = st.patient_id
  /\ Get(node.data, "timestamp") = Str(ISOString(ms))
  /\ EntryOfRun(node.data, st)

\* the history line of a stored node: its timestamp, its symptoms, its diagnosis
HistoryLine(node) ==
  LET sy == Get(node.data, "symptoms").v IN
  "Consulta anterior (" \o Get(node.data, "timestamp").v \o "): Sintomas: "
    \o Join([i \in 1..Len(sy) |-> sy[i].v], ", ")
    \o ", Diagnostico: " \o Get(node.data, "diagnosis").v

\* C21: every node a graph holds after a step was there before the step or is
\* the node the persist step of that step wrote, content and type; what a
\* memory query returns are nodes of the subject's graph as stored; and the
\* context of a run is the history lines of nodes its search returned
C21_RoundTrip ==
  /\ [](\A p \in Subjects :
          \A found \in SearchResults(GraphId(p), ContextLimit) \cup searchPatient(p)
                         \cup {getHistory(p)} :
            \A i \in 1..Len(found) : found[i] \in Elems(getHistory(p)))
  /\ [][/\ \A g \in DOMAIN graphs' :
             \A i \in 1..Len(graphs'[g]) :
               \/ g \in DOMAIN graphs /\ graphs'[g][i] \in Elems(graphs[g])
               \/ \E r \in Runs :
                    /\ pc[r] = "save_to_graph" /\ pc'[r] = "save_history"
                    /\ g = GraphId(state[r].patient_id)
                    /\ WrittenBy(graphs'[g][i], state[r], now')
        /\ \A r \in Runs :
             /\ pc[r] = "save_to_graph" /\ pc'[r] = "save_history"
                  => \E node \in Elems(getHistory(state[r].patient_id)') :
                       WrittenBy(node, state[r], now')
             /\ ( /\ pc[r] = "get_context_search" /\ pc'[r] = "diagnose"
                  /\ lastFault'[r] = "none" )
                  => \E found \in SearchResults(GraphId(state[r].patient_id),
                                                ContextLimit) :
                       state'[r].cognee_context
                         = Join([i \in 1..Len(found) |-> HistoryLine(found[i])],
                                "\n")]_vars

\* a later run for the subject of a stored consultation holds its history line
C21_Witness ==
  \E r \in Runs :
    /\ pc[r] = "diagnose" /\ state[r].patient_id = Str("A")
    /\ state[r].cognee_context
         = "Consulta anterior (T0): Sintomas: fiebre, tos, mareo, nausea, "
             \o "Diagnostico: gripe"
    /\ Len(getHistory(Str("A"))) = 1
    /\ Get(getHistory(Str("A"))[1].data, "diagnosis") = Str("gripe")

WrappedDocuments(content) ==
  LET n == Len(content)
      body(from) == {i \in from..(n - 1) : content[i] # NL}
  IN IF n = 1 /\ content[1].k = "json" THEN {content[1].v}
     ELSE IF n >= 3 /\ content[1] = Fence /\ content[n] = Fence
       THEN LET from == IF content[2].k = "word" THEN 3 ELSE 2 IN
            {content[i].v : i \in {j \in body(from) :
                                      body(from) = {j} /\ content[j].k = "json"}}
       ELSE {}

\* C30: a completion that is a JSON object in fences, whatever word follows
\* the opening fence, or a bare JSON object, parses to that object
C30_FenceStripping ==
  unit.fn = "parseCompletion"
    => \A doc \in WrappedDocuments(unit.content) :
         unit.out.ok /\ unit.out.value = doc

\* the history namespace of a subject id: the id, "anonymous" when absent
Namespace(patientId) == IF patientId = Null THEN "anonymous" ELSE patientId.v

\* the subject id of the call that takes a step: the one it holds, the one it
\* is given when the step is the start of the call
SubjectOfStep(q) ==
  IF pc[q] \in {"idle", "done"} THEN state'[q].patient_id ELSE state[q].patient_id

\* what detect_drift leaves in a run that is alone with an empty history
AloneFlags(st) ==
  IF st.extracted_data.t \in {"null", "undefined"} THEN {<<>>}
  ELSE {<<>>} \cup
       {<<"Schema validation failed: "
            \o Join(validateExtractionSchema(st.extracted_data).errors, ", ")>> :
          x \in {y \in {1} : ~WellTypedExtraction(st.extracted_data)}}

IsPrefix(a, b) == Len(a) <= Len(b) /\ SubSeq(b, 1, Len(a)) = a

\* C29: no step removes a graph or changes or removes a stored node or history
\* entry: what a graph and a history document held before a step is the
\* beginning of what they hold after it; and a persist step whose addNode
\* succeeds leaves the subject's graph one node longer
C29_HistoryAppendOnly ==
  [][/\ \A g \in DOMAIN graphs :
          g \in DOMAIN graphs' /\ IsPrefix(graphs[g], graphs'[g])
     /\ \A d \in Docs : IsPrefix(history[d], history'[d])
     /\ \A r \in Runs :
          (pc[r] = "save_to_graph" /\ pc'[r] = "save_history")
            => Len(getHistory(state[r].patient_id)')
                 = Len(getHistory(state[r].patient_id)) + 1]_vars

\* C24: every call in flight returns a result in the end, also when a
\* completion call is never answered
C24_RunsReturn ==
  \A r \in Runs : InFlight(r) ~> Returned(r)

\* C26: when a transcribe request that stored an upload is sent its response,
\* 200 or 500, the stored file does not exist
C26_UploadDeleted ==
  [][\A q \in Requests :
       (req[q].path # "" /\ req[q].status = 0 /\ req'[q].status # 0)
         => /\ req'[q].status \in {200, 500}
            /\ req[q].path \notin files']_vars

\* a request answered 200 and a request answered 500, the directory empty
C26_Witness ==
  \E p, q \in Requests :
    /\ req[p].path # "" /\ req[p].status = 200
    /\ req[q].path # "" /\ req[q].status = 500
    /\ files = {}

\* the number of times x occurs in a sequence
Occurrences(seq, x) == Cardinality({i \in 1..Len(seq) : seq[i] = x})

\* window holds the min(limit, n) most recent of the n entries, newest first:
\* it has that length, its timestamps do not increase, it holds no entry more
\* often than the entries do, and it holds every entry that is newer than its
\* last one
IsRecentWindow(window, entries, limit) ==
  LET k == IF Len(entries) < limit THEN Len(entries) ELSE limit IN
  /\ Len(window) = k
  /\ \A i \in 1..(k - 1) :
       InstantOf(Get(window[i], "timestamp").v)
         >= InstantOf(Get(window[i + 1], "timestamp").v)
  /\ \A i \in 1..k : Occurrences(window, window[i]) <= Occurrences(entries, window[i])
  /\ \A j \in 1..Len(entries) :
       (k > 0 /\ InstantOf(Get(entries[j], "timestamp").v)
                   > InstantOf(Get(window[k], "timestamp").v))
         => Occurrences(window, entries[j]) = Occurrences(entries, entries[j])

\* the flags of an extraction that is not null against a window: the schema
\* flag when the extraction is not well-typed, then the variance flag when the
\* window is not empty and |C*n - S| > 3*n
FlagsAgainst(data, window) ==
  LET n == Len(window)
      C == CountOf(data)
  IN (IF WellTypedExtraction(data) THEN <<>>
      ELSE <<"Schema validation failed: "
               \o Join(validateExtractionSchema(data).errors, ", ")>>)
     \o (IF n > 0 /\ Abs(C * n - SumOf(window)) > 3 * n
           THEN <<"Symptom count variance detected: current=" \o ToString(C)
                    \o ", avg=" \o ToFixed1(SumOf(window), n)>>
           ELSE <<>>)

\* C28: what detect_drift may read of the history of the run's subject
\* ("anonymous" without a subject id), as it stands when the step is taken, is
\* the min(10, n) newest entries, newest first; the flags it leaves are those
\* of the extraction against such a window, or none when the read fails
C28_DriftWindow ==
  [][\A r \in Runs :
       (pc[r] = "detect_drift" /\ pc'[r] # pc[r]) =>
         LET entries == history[Namespace(state[r].patient_id)]
             windows == RecentHistory(entries, 10)
         IN /\ windows # {}
            /\ \A window \in windows : IsRecentWindow(window, entries, 10)
            /\ IF lastFault'[r] = "drift_store"
                 THEN state'[r].drift_flags = <<>>
                 ELSE \E window \in windows :
                        state'[r].drift_flags
                          = FlagsAgainst(state[r].extracted_data, window)]_vars

\* the subject has eleven entries, the oldest without symptoms; the run's
\* extraction of four symptoms is within the threshold of the ten newest and
\* beyond the threshold of all eleven, and detect_drift has left no flag
C28_Witness ==
  \E r \in Runs :
    /\ pc[r] = "save_to_graph" /\ lastFault[r] = "none"
    /\ state[r].patient_id = Str("A")
    /\ state[r].extracted_data = ValidExtraction
    /\ Len(history["A"]) = 11
    /\ CountOf(history["A"][1]) = 0
    /\ Abs(4 * 11 - SumOf(history["A"])) > 3 * 11
    /\ state[r].drift_flags = <<>>

\* the field of the run state a step returns an update of
OwnField(step) ==
  IF step = "extract" THEN "extracted_data"
  ELSE IF step \in {"get_context", "get_context_create", "get_context_search"}
    THEN "cognee_context"
  ELSE IF step = "diagnose" THEN "diagnosis"
  ELSE IF step = "detect_drift" THEN "drift_flags"
  ELSE "none"

\* C31: a step of a run that does not end the call leaves every field of the
\* run state but its own as it was; extracted_data after extract is the parsed
\* completion or the error marker, whole; and a run in flight holds the one
\* user message and the fields of createState
C31_OwnFieldOnly ==
  /\ [](\A r \in Runs :
          InFlight(r) => /\ DOMAIN state[r] = DOMAIN createState
                         /\ Len(state[r].messages) = 1
                         /\ state[r].messages[1].role = "user"
                         /\ state[r].messages[1].content \in Texts)
  /\ [][\A r \in Runs :
          (InFlight(r) /\ pc'[r] # pc[r] /\ pc'[r] # "done") =>
            /\ \A f \in DOMAIN createState :
                 f # OwnField(pc[r]) => state'[r][f] = state[r][f]
            /\ pc[r] = "extract" =>
                 state'[r].extracted_data \in {ExtractErrorMarker, ValidExtraction}
            /\ pc[r] = "diagnose" =>
                 state'[r].diagnosis \in {DiagnosisErrorMarker, ValidDiagnosis}]_vars

\* a run at the end of its workflow with every step's field set, its message
\* and its subject id as given
C31_Witness ==
  \E r \in Runs :
    /\ pc[r] = "END"
    /\ trace[r] = PipelineOrder
    /\ state[r].messages = <<[role |-> "user", content |-> "tengo fiebre y tos"]>>
    /\ state[r].patient_id = Str("A")
    /\ state[r].extracted_data = ValidExtraction
    /\ state[r].cognee_context # ""
    /\ state[r].diagnosis = ValidDiagnosis
    /\ state[r].drift_flags # <<>>
    /\ state[r].transcription = ""

\* C32: every entry of a window detect_drift may read was persisted by a run
\* with the subject id of the reading run: the subject's graph holds the
\* consultation under that id; a run without a subject id, which no persisting
\* run shares, reads no entry at all
C32_DriftWithinSubject ==
  \A r \in Runs :
    pc[r] = "detect_drift" =>
      \A window \in RecentHistory(history[HistoryDoc(state[r].patient_id)],
                                  DriftWindow) :
        \A i \in 1..Len(window) :
          /\ HasSubject(state[r])
          /\ \E node \in Elems(getHistory(state[r].patient_id)) :
               /\ node.data = window[i]
               /\ node.metadata.patient_id = state[r].patient_id

\* C33: a run that stands at detect_drift has not started its persist step and
\* has written nothing; when it writes its history entry its detect_drift is
\* done; and from detect_drift on its flags stay as they are up to the result
C33_WindowBeforePersist ==
  /\ [](\A r \in Runs :
          pc[r] = "detect_drift"
            => /\ "save_to_graph" \notin Elems(trace[r])
               /\ saveTs[r] = "")
  /\ [][\A r \in Runs :
          /\ (pc[r] = "save_history" /\ pc'[r] # pc[r])
               => /\ "detect_drift" \in Elems(trace[r])
                  /\ \A d \in Docs \ {HistoryDoc(state[r].patient_id)} :
                       history'[d] = history[d]
          /\ ( /\ InFlight(r) /\ pc'[r] # pc[r]
               /\ "detect_drift" \in Elems(trace[r]) )
               => IF pc'[r] = "done"
                    THEN result'[r].success
                           => result'[r].metadata.drift_flags = state[r].drift_flags
                    ELSE state'[r].drift_flags = state[r].drift_flags]_vars

\* the only call made has persisted its consultation; its flags, left by
\* detect_drift on the then empty history, are none
C33_Witness ==
  \E r \in Runs :
    /\ started = 1 /\ pc[r] = "END" /\ trace[r] = PipelineOrder
    /\ state[r].patient_id = Str("A")
    /\ Len(history["A"]) = 1
    /\ Get(history["A"][1], "symptoms") = Get(state[r].extracted_data, "symptoms")
    /\ state[r].drift_flags = <<>>

\* the schema flag of the error marker of extract
MarkerSchemaFlag ==
  "Schema validation failed: Missing patient_info, symptoms must be array, "
    \o "motive must be string"

\* C34: the extraction a run brings to detect_drift is the error marker or
\* passed validation; when the history read succeeds, the flags begin with the
\* schema flag if it is the marker and hold variance flags only if it passed
\* validation; and drift_detected of the result is true exactly when the
\* result's flags, those of the run state, are not empty
C34_SchemaFlagIffDegraded ==
  [][\A r \in Runs :
       /\ ( /\ pc[r] = "detect_drift" /\ pc'[r] # pc[r]
            /\ lastFault'[r] # "drift_store" )
            => LET flags == state'[r].drift_flags IN
               /\ state[r].extracted_data = ExtractErrorMarker
                    \/ WellTypedExtraction(state[r].extracted_data)
               /\ state[r].extracted_data = ExtractErrorMarker
                    => /\ Len(flags) >= 1 /\ flags[1] = MarkerSchemaFlag
                       /\ \A i \in 2..Len(flags) : flags[i] \in VarianceFlags
               /\ WellTypedExtraction(state[r].extracted_data)
                    => \A i \in 1..Len(flags) : flags[i] \in VarianceFlags
       /\ (InFlight(r) /\ pc'[r] = "done" /\ result'[r].success)
            => /\ result'[r].metadata.drift_flags = state[r].drift_flags
               /\ result'[r].metadata.drift_detected
                    <=> Len(result'[r].metadata.drift_flags) > 0]_vars

\* a call has returned with drift detected, its flags the schema flag of a
\* degraded extraction
C34_Witness ==
  \E r \in Runs :
    /\ Returned(r) /\ result[r].success
    /\ result[r].metadata.drift_detected
    /\ result[r].metadata.drift_flags = <<MarkerSchemaFlag>>
    /\ result[r].symptoms = Arr(<<>>)

\* C35: the entry logToMLflow logs for a run has extraction_success 1 when the
\* run's extracted_data passed validation and 0 when it is the error marker,
\* and diagnosis_success likewise for the run's diagnosis
C35_SuccessFlagsReflectSteps ==
  [][\A r \in Runs :
       (pc[r] = "END" /\ pc'[r] # pc[r])
         => /\ mlflow'[r].entry.extraction_success
                 = (IF WellTypedExtraction(state[r].extracted_data) THEN 1 ELSE 0)
            /\ mlflow'[r].entry.diagnosis_success
                 = (IF validateDiagnosisSchema(state[r].diagnosis).isValid
                      THEN 1 ELSE 0)]_vars

\* C36: a call of processMessage that has returned has left no MLflow run open
C36_ObservabilityRunsClosed ==
  \A r \in Runs : Returned(r) => mlflow[r].status # "open"

\* C37: createGraph is called for a subject's graph only when that graph does
\* not exist, and no step leaves a graph with fewer nodes than it had
C37_GraphCreatedOnce ==
  [][/\ \A r \in Runs :
          (pc[r] = "get_context_create" /\ pc'[r] # pc[r])
            => ~GraphExists(GraphId(state[r].patient_id))
     /\ \A g \in DOMAIN graphs :
          g \in DOMAIN graphs' /\ Len(graphs'[g]) >= Len(graphs[g])]_vars

\* C38: when the persist step of a run with a subject ends, the run's
\* consultation is in the subject's graph exactly if it is in the subject's
\* history collection
C38_StoresConsistent ==
  [][\A r \in Runs :
       ( /\ pc[r] \in {"save_to_graph", "save_history"} /\ pc'[r] = "END"
         /\ HasSubject(state[r]) )
         => LET timestamp == IF pc[r] = "save_history" THEN saveTs[r]
                             ELSE ISOString(now')
                consultation == MedicalData(state[r], timestamp)
            IN (\E node \in Elems(getHistory(state[r].patient_id)') :
                  node.data = consultation)
                 <=> consultation
                       \in Elems(history'[HistoryDoc(state[r].patient_id)])]_vars

\* the graphs and their nodes
GraphNodes ==
  UNION {{<<g, graphs[g][i]>> : i \in 1..Len(graphs[g])} : g \in DOMAIN graphs}

\* C39: a call that has returned a failure has not started its persist step,
\* and the step on which it returns the failure is extract or diagnose and
\* writes nothing; a history entry or a graph node is written by the persist
\* step of a run only, and a call that has started its persist step returns
\* success
C39_AbortLeavesNoRecord ==
  /\ [](\A r \in Runs :
          Returned(r) =>
            /\ ~result[r].success
                 => trace[r] \in {<<"extract">>, SubSeq(PipelineOrder, 1, 3)}
            /\ "save_to_graph" \in Elems(trace[r]) => result[r].success)
  /\ [][/\ \A r \in Runs :
             (InFlight(r) /\ pc'[r] = "done" /\ ~result'[r].success)
               => /\ pc[r] \in {"extract", "diagnose"}
                  /\ history' = history
                  /\ graphs' = graphs
        /\ (history' # history \/ GraphNodes' # GraphNodes)
             => \E r \in Runs :
                  /\ pc[r] \in {"save_to_graph", "save_history"}
                  /\ pc'[r] # pc[r]
                  /\ HasSubject(state[r])]_vars

\* the only call made, for a subject, has returned a failure from diagnose: the
\* subject's graph is empty and no history collection has an entry
C39_Witness ==
  \E r \in Runs :
    /\ started = 1 /\ Returned(r) /\ ~result[r].success
    /\ trace[r] = SubSeq(PipelineOrder, 1, 3)
    /\ DOMAIN graphs = {"patient-A"} /\ graphs["patient-A"] = <<>>
    /\ \A d \in Docs : history[d] = <<>>

====
